---------------------------- MODULE Spec2Model ----------------------------
(***************************************************************************)
(* Combat and wave core of the Bullet Echo arcade shooter (pygame).        *)
(*                                                                         *)
(* Units.  Time is counted in steps of 1/TimeScale second (0.05 s), so     *)
(* every duration of the source is a whole number: FIRE_RATE 0.15 s = 3,   *)
(* fade_duration 0.8 s = 16, reload_time 2.0 s = 40, ...  Positions are    *)
(* whole pixels; a displacement speed * dt is truncated to whole pixels.   *)
(* Angles are whole degrees (the source uses radians); the trigonometric   *)
(* table is exact to 1/1000 on the multiples of 15 degrees, which are the  *)
(* only angles the model's inputs produce.                                 *)
(***************************************************************************)
EXTENDS Integers, Sequences, FiniteSets, TLC

VARIABLES
    now,                  \* pygame.time.get_ticks() / 1000.0, in time units
    dt,                   \* the frame time the last clock.tick(FPS) returned
    player,               \* Game.player
    bullets,              \* Game.bullets (player bullets)
    enemies,              \* Game.enemies
    power_ups,            \* Game.power_ups
    active_boss,          \* Game.active_boss (NoBoss for None)
    game,                 \* the scalar fields of Game (flags, wave, timers)
    ev                    \* observation of the last call: what was called, with
                          \* which arguments, and what it returned

vars == <<now, dt, player, bullets, enemies, power_ups, active_boss, game, ev>>

---------------------------------------------------------------------------
(* Bounds of the model                                                     *)

\* The frame time dt ranges over 1..MaxDt time units.
MaxDt == 2
\* Clock values are explored up to MaxTime past the start of a run.
MaxTime == 6

DtSet == 1..MaxDt

---------------------------------------------------------------------------
(* constants.py                                                            *)

\* dt = clock.tick(FPS) / 1000.0: seconds; the model counts 1/20 s.
TimeScale == 20

SCREEN_W == 1280
SCREEN_H == 720
PLAYER_SPEED == 200
PLAYER_SIZE == 30
PLAYER_HP == 100
BULLET_SPEED == 400
BULLET_SIZE == 4
BULLET_DAMAGE == 25
BULLET_RANGE == 300
FIRE_RATE == 3
ENEMY_SIZE == 25
ENEMY_SPEED == 80
ENEMY_HP == 50
ENEMY_DAMAGE == 20
ENEMY_SPAWN_RATE == 20

---------------------------------------------------------------------------
(* Arithmetic of the source's floats, on integers                          *)

Max(a, b) == IF a >= b THEN a ELSE b
Min(a, b) == IF a <= b THEN a ELSE b
Abs(a) == IF a >= 0 THEN a ELSE -a

\* A quotient truncated toward zero, as int() truncates.
TruncDiv(a, b) == IF a >= 0 THEN a \div b ELSE -((-a) \div b)

RECURSIVE SqrtIter(_, _, _)
SqrtIter(n, lo, hi) ==
    IF lo >= hi THEN lo
    ELSE LET mid == (lo + hi + 1) \div 2
         IN  IF mid * mid <= n THEN SqrtIter(n, mid, hi)
                               ELSE SqrtIter(n, lo, mid - 1)

\* math.hypot(dx, dy), rounded down to a whole pixel.
Hypot(dx, dy) == SqrtIter(dx * dx + dy * dy, 0, 4096)

\* 1000 * cos of 0, 15, ..., 90 degrees.
CosTable == <<1000, 966, 866, 707, 500, 259, 0>>

\* 1000 * math.cos(a), a in degrees, a multiple of 15.
Cos1000(a) ==
    LET m == (a % 360) \div 15
    IN  IF m <= 6 THEN CosTable[m + 1]
        ELSE IF m <= 12 THEN -CosTable[12 - m + 1]
        ELSE IF m <= 18 THEN -CosTable[m - 12 + 1]
        ELSE CosTable[24 - m + 1]

\* 1000 * math.sin(a).
Sin1000(a) == Cos1000(a - 90)

\* math.atan2(dy, dx) in degrees, in (-180, 180]: exact on the eight
\* principal directions, otherwise the nearest multiple of 15 degrees.
Atan2Deg(dy, dx) ==
    IF dx = 0 /\ dy = 0 THEN 0
    ELSE LET cand == {15 * k : k \in -11..12}
             score(a) == Cos1000(a) * dx + Sin1000(a) * dy
         IN  CHOOSE a \in cand : \A b \in cand :
                 score(a) > score(b) \/ (score(a) = score(b) /\ a >= b)

\* speed * dt along a component c/1000 of a unit vector, in whole pixels.
Displace(c1000, speed, d) == TruncDiv(c1000 * speed * d, 1000 * TimeScale)

---------------------------------------------------------------------------
(* pygame.Rect                                                             *)

Rect(left, top, w, h) == [left |-> left, top |-> top, w |-> w, h |-> h]

\* A rectangle of the given size whose center is (cx, cy): rect.center = ...
RectAt(cx, cy, size) == Rect(cx - size \div 2, cy - size \div 2, size, size)

colliderect(a, b) ==
    /\ a.left < b.left + b.w
    /\ a.left + a.w > b.left
    /\ a.top < b.top + b.h
    /\ a.top + a.h > b.top

\* rect.inflate(dw, dh): grown around its center.
inflate(r, dw, dh) ==
    Rect(r.left - dw \div 2, r.top - dh \div 2, r.w + dw, r.h + dh)

\* Game.create_map: the four border walls.
walls ==
    << Rect(0, 0, SCREEN_W, 20),
       Rect(0, SCREEN_H - 20, SCREEN_W, 20),
       Rect(0, 0, 20, SCREEN_H),
       Rect(SCREEN_W - 20, 0, 20, SCREEN_H) >>

HitsWall(r) == \E i \in 1..Len(walls) : colliderect(r, walls[i])

---------------------------------------------------------------------------
(* bullets.py: Bullet (the player's projectile)                            *)

NoBullet == [kind |-> "none"]

\* Bullet.__init__
Bullet(x, y, angle, damage, speed, range_val, size) ==
    [ kind |-> "bullet", x |-> x, y |-> y, angle |-> angle, damage |-> damage,
      vx |-> Cos1000(angle) * speed, vy |-> Sin1000(angle) * speed,
      life |-> 0, max_life |-> (range_val * TimeScale) \div speed,
      size |-> size ]

BulletRect(b) == RectAt(b.x, b.y, b.size)

---------------------------------------------------------------------------
(* player.py: Player                                                       *)

reload_time == 40
PLAYER_MAX_AMMO == 30
impulse_decay == 9

\* Player.__init__
NewPlayer(x, y) ==
    [ x |-> x, y |-> y, angle |-> 0,
      hp |-> PLAYER_HP, max_hp |-> PLAYER_HP,
      speed |-> PLAYER_SPEED, bullet_damage |-> BULLET_DAMAGE,
      armor |-> 0, last_shot_time |-> -FIRE_RATE,
      max_ammo |-> PLAYER_MAX_AMMO, current_ammo |-> PLAYER_MAX_AMMO,
      is_reloading |-> FALSE, reload_start |-> 0,
      speed_level |-> 0, damage_level |-> 0,
      impulse_x |-> 0, impulse_y |-> 0 ]

PlayerRect(p) == RectAt(p.x, p.y, PLAYER_SIZE)

\* Player.apply_impulse
Player_apply_impulse(p, ix, iy) ==
    [p EXCEPT !.impulse_x = @ + ix, !.impulse_y = @ + iy]

\* Player.start_reload: the player after the call.
Player_start_reload(p, current_time) ==
    IF ~p.is_reloading /\ p.current_ammo < p.max_ammo
    THEN [p EXCEPT !.is_reloading = TRUE, !.reload_start = current_time]
    ELSE p

\* Player.shoot without the fire-rate test.
Player_shoot_NoCooldown(p, current_time) ==
    IF p.is_reloading
    THEN [player |-> p, bullet |-> NoBullet]
    ELSE IF p.current_ammo <= 0
    THEN [player |-> Player_start_reload(p, current_time), bullet |-> NoBullet]
    ELSE [ player |-> [p EXCEPT !.current_ammo = @ - 1,
                                !.last_shot_time = current_time],
           bullet |-> Bullet(p.x, p.y, p.angle, p.bullet_damage,
                             BULLET_SPEED, BULLET_RANGE, BULLET_SIZE) ]

\* Player.shoot without the reload an empty magazine starts.
Player_shoot_NoAutoReload(p, current_time) ==
    IF current_time - p.last_shot_time < FIRE_RATE
    THEN [player |-> p, bullet |-> NoBullet]
    ELSE IF p.is_reloading
    THEN [player |-> p, bullet |-> NoBullet]
    ELSE IF p.current_ammo <= 0
    THEN [player |-> p, bullet |-> NoBullet]
    ELSE [ player |-> [p EXCEPT !.current_ammo = @ - 1,
                                !.last_shot_time = current_time],
           bullet |-> Bullet(p.x, p.y, p.angle, p.bullet_damage,
                             BULLET_SPEED, BULLET_RANGE, BULLET_SIZE) ]

\* Player.shoot: the player after the call and the bullet returned.
Player_shoot(p, current_time) ==
    IF current_time - p.last_shot_time < FIRE_RATE
    THEN [player |-> p, bullet |-> NoBullet]
    ELSE IF p.is_reloading
    THEN [player |-> p, bullet |-> NoBullet]
    ELSE IF p.current_ammo <= 0
    THEN [player |-> Player_start_reload(p, current_time), bullet |-> NoBullet]
    ELSE [ player |-> [p EXCEPT !.current_ammo = @ - 1,
                                !.last_shot_time = current_time],
           bullet |-> Bullet(p.x, p.y, p.angle, p.bullet_damage,
                             BULLET_SPEED, BULLET_RANGE, BULLET_SIZE) ]

\* Player.take_damage without the clamp of health at 0.
Player_take_damage_NoClamp(p, damage) ==
    LET dmg == IF p.armor > 0 THEN Max(1, damage \div 2) ELSE damage
        arm == IF p.armor > 0 THEN p.armor - 1 ELSE p.armor
    IN  [p EXCEPT !.armor = arm, !.hp = p.hp - dmg]

\* Player.take_damage halving without the minimum of 1.
Player_take_damage_NoMinimum(p, damage) ==
    LET dmg == IF p.armor > 0 THEN damage \div 2 ELSE damage
        arm == IF p.armor > 0 THEN p.armor - 1 ELSE p.armor
    IN  [p EXCEPT !.armor = arm, !.hp = Max(0, p.hp - dmg)]

\* Player.take_damage
Player_take_damage(p, damage) ==
    LET dmg == IF p.armor > 0 THEN Max(1, damage \div 2) ELSE damage
        arm == IF p.armor > 0 THEN p.armor - 1 ELSE p.armor
    IN  [p EXCEPT !.armor = arm, !.hp = Max(0, p.hp - dmg)]

\* Player.upgrade_speed
Player_upgrade_speed(p) ==
    [p EXCEPT !.speed_level = @ + 1, !.speed = @ + 50]

\* Player.upgrade_damage
Player_upgrade_damage(p) ==
    [p EXCEPT !.damage_level = @ + 1, !.bullet_damage = @ + 15]

\* Player.upgrade_max_hp
Player_upgrade_max_hp(p) ==
    [p EXCEPT !.max_hp = @ + 25, !.hp = @ + 25]

\* Player.upgrade_ammo_capacity
Player_upgrade_ammo_capacity(p) ==
    LET m == p.max_ammo + 5
    IN  [p EXCEPT !.max_ammo = m,
                  !.current_ammo = IF p.current_ammo >= m - 5 THEN m ELSE @]

\* Player.update_reload completing only after more than reload_time.
Player_update_reload_Late(p, current_time) ==
    IF p.is_reloading /\ (current_time - p.reload_start) > reload_time
    THEN [p EXCEPT !.current_ammo = p.max_ammo, !.is_reloading = FALSE]
    ELSE p

\* Player.update_reload: the player after the call.
Player_update_reload(p, current_time) ==
    IF p.is_reloading /\ (current_time - p.reload_start) >= reload_time
    THEN [p EXCEPT !.current_ammo = p.max_ammo, !.is_reloading = FALSE]
    ELSE p

\* Player._candidate_rect
candidate_rect(p, dx, dy) == RectAt(p.x + dx, p.y + dy, PLAYER_SIZE)

RECURSIVE resolve_collisions(_, _)
\* Player._resolve_collisions, from wall k on: the player is pushed out of
\* each wall it intersects along the axis of least overlap.
resolve_collisions(p, k) ==
    IF k > Len(walls) THEN p
    ELSE LET w == walls[k]
             r == PlayerRect(p)
             left_overlap == (r.left + r.w) - w.left
             right_overlap == (w.left + w.w) - r.left
             top_overlap == (r.top + r.h) - w.top
             bottom_overlap == (w.top + w.h) - r.top
             min_overlap == Min(Min(left_overlap, right_overlap),
                                Min(top_overlap, bottom_overlap))
             half == PLAYER_SIZE \div 2
             pushed ==
                 IF min_overlap = left_overlap
                 THEN [p EXCEPT !.x = w.left - r.w + half]
                 ELSE IF min_overlap = right_overlap
                 THEN [p EXCEPT !.x = w.left + w.w + half]
                 ELSE IF min_overlap = top_overlap
                 THEN [p EXCEPT !.y = w.top - r.h + half]
                 ELSE [p EXCEPT !.y = w.top + w.h + half]
         IN  resolve_collisions(IF colliderect(r, w) THEN pushed ELSE p, k + 1)

\* Player.update testing the two displacements together, as Enemy.update
\* does: a wall on one axis stops the step on both.
Player_update_Joint(p, d, keys) ==
    LET ax == (IF "d" \in keys THEN 1 ELSE 0) - (IF "a" \in keys THEN 1 ELSE 0)
        ay == (IF "s" \in keys THEN 1 ELSE 0) - (IF "w" \in keys THEN 1 ELSE 0)
        f == IF ax # 0 /\ ay # 0 THEN 707 ELSE 1000
        move_x == TruncDiv(ax * f * p.speed * d, 1000 * TimeScale)
                  + TruncDiv(p.impulse_x * d, TimeScale)
        move_y == TruncDiv(ay * f * p.speed * d, 1000 * TimeScale)
                  + TruncDiv(p.impulse_y * d, TimeScale)
        p0 == [p EXCEPT
                 !.impulse_x = @ - TruncDiv(@ * impulse_decay * d, TimeScale),
                 !.impulse_y = @ - TruncDiv(@ * impulse_decay * d, TimeScale)]
        p2 == IF ~HitsWall(candidate_rect(p0, move_x, move_y))
              THEN [p0 EXCEPT !.x = @ + move_x, !.y = @ + move_y] ELSE p0
    IN  resolve_collisions(p2, 1)

\* Player.update; keys is the set of movement keys held, among w, a, s, d.
Player_update(p, d, keys) ==
    LET ax == (IF "d" \in keys THEN 1 ELSE 0) - (IF "a" \in keys THEN 1 ELSE 0)
        ay == (IF "s" \in keys THEN 1 ELSE 0) - (IF "w" \in keys THEN 1 ELSE 0)
        f == IF ax # 0 /\ ay # 0 THEN 707 ELSE 1000
        move_x == TruncDiv(ax * f * p.speed * d, 1000 * TimeScale)
                  + TruncDiv(p.impulse_x * d, TimeScale)
        move_y == TruncDiv(ay * f * p.speed * d, 1000 * TimeScale)
                  + TruncDiv(p.impulse_y * d, TimeScale)
        p0 == [p EXCEPT
                 !.impulse_x = @ - TruncDiv(@ * impulse_decay * d, TimeScale),
                 !.impulse_y = @ - TruncDiv(@ * impulse_decay * d, TimeScale)]
        p1 == IF move_x # 0 /\ ~HitsWall(candidate_rect(p0, move_x, 0))
              THEN [p0 EXCEPT !.x = @ + move_x] ELSE p0
        p2 == IF move_y # 0 /\ ~HitsWall(candidate_rect(p1, 0, move_y))
              THEN [p1 EXCEPT !.y = @ + move_y] ELSE p1
    IN  resolve_collisions(p2, 1)

\* Player.rotate_to_mouse
rotate_to_mouse(p, mouse_pos) ==
    [p EXCEPT !.angle = Atan2Deg(mouse_pos[2] - p.y, mouse_pos[1] - p.x)]

---------------------------------------------------------------------------
(* enemy.py: Enemy                                                         *)

attack_cooldown == 20
fade_duration == 16
ENEMY_KNOCKBACK_DECAY == 8
ENEMY_KNOCKBACK == 300
ATTACK_RADIUS == 30

\* The default None of take_damage's angle parameter.
NoAngle == 9999

\* Enemy.__init__
NewEnemy(x, y, wave) ==
    [ x |-> x, y |-> y,
      max_hp |-> ENEMY_HP + (wave - 1) * 30, hp |-> ENEMY_HP + (wave - 1) * 30,
      speed |-> ENEMY_SPEED + (wave - 1) * 5, damage |-> ENEMY_DAMAGE,
      last_attack |-> 0,
      is_dead_flag |-> FALSE, death_timer |-> 0,
      knockback_x |-> 0, knockback_y |-> 0 ]

\* Enemy.rect: its center follows (x, y) on every committed move.
EnemyRect(e) == RectAt(e.x, e.y, ENEMY_SIZE)

\* The pursuit step sliding along a wall: when the full step is blocked the
\* actor still takes its vertical part, if that is free.
MoveTowards_Sliding(a, tx, ty, speed, d, size, decay) ==
    LET dx == tx - a.x
        dy == ty - a.y
        dist == Hypot(dx, dy)
    IN  IF dist > 0
        THEN LET mx == TruncDiv(dx * speed * d, dist * TimeScale)
                       + TruncDiv(a.knockback_x * d, TimeScale)
                 my == TruncDiv(dy * speed * d, dist * TimeScale)
                       + TruncDiv(a.knockback_y * d, TimeScale)
                 slowed == [a EXCEPT
                     !.knockback_x = @ - TruncDiv(@ * decay * d, TimeScale),
                     !.knockback_y = @ - TruncDiv(@ * decay * d, TimeScale)]
             IN  IF ~HitsWall(RectAt(a.x + mx, a.y + my, size))
                 THEN [slowed EXCEPT !.x = a.x + mx, !.y = a.y + my]
                 ELSE IF ~HitsWall(RectAt(a.x, a.y + my, size))
                 THEN [slowed EXCEPT !.y = a.y + my]
                 ELSE slowed
        ELSE a

\* The pursuit step shared by Enemy.update and BossBase.move_towards_player:
\* the actor a (fields x, y, knockback_x, knockback_y) after moving toward
\* (speed > 0) or away from (speed < 0) the point (tx, ty) for d time units.
MoveTowards(a, tx, ty, speed, d, size, decay) ==
    LET dx == tx - a.x
        dy == ty - a.y
        dist == Hypot(dx, dy)
    IN  IF dist > 0
        THEN LET mx == TruncDiv(dx * speed * d, dist * TimeScale)
                       + TruncDiv(a.knockback_x * d, TimeScale)
                 my == TruncDiv(dy * speed * d, dist * TimeScale)
                       + TruncDiv(a.knockback_y * d, TimeScale)
                 kx == a.knockback_x
                       - TruncDiv(a.knockback_x * decay * d, TimeScale)
                 ky == a.knockback_y
                       - TruncDiv(a.knockback_y * decay * d, TimeScale)
                 new_x == a.x + mx
                 new_y == a.y + my
                 slowed == [a EXCEPT !.knockback_x = kx, !.knockback_y = ky]
             IN  IF ~HitsWall(RectAt(new_x, new_y, size))
                 THEN [slowed EXCEPT !.x = new_x, !.y = new_y]
                 ELSE slowed
        ELSE a

\* Enemy.update
Enemy_update(e, d, p) ==
    IF e.is_dead_flag
    THEN [e EXCEPT !.death_timer = @ + d]
    ELSE MoveTowards(e, p.x, p.y, e.speed, d, ENEMY_SIZE, ENEMY_KNOCKBACK_DECAY)

\* Enemy.attack: does this call hit the player?
Enemy_attacks(e, p, current_time) ==
    /\ ~e.is_dead_flag
    /\ (p.x - e.x) * (p.x - e.x) + (p.y - e.y) * (p.y - e.y)
          <= ATTACK_RADIUS * ATTACK_RADIUS
    /\ (current_time - e.last_attack) >= attack_cooldown

\* Enemy.attack leaving last_attack alone: nothing restarts the cooldown.
Enemy_attack_NoReset(e, p, current_time) ==
    IF Enemy_attacks(e, p, current_time)
    THEN [ enemy |-> e, player |-> Player_take_damage(p, e.damage) ]
    ELSE [ enemy |-> e, player |-> p ]

\* Enemy.attack: the enemy and the player after the call.
Enemy_attack(e, p, current_time) ==
    IF Enemy_attacks(e, p, current_time)
    THEN [ enemy |-> [e EXCEPT !.last_attack = current_time],
           player |-> Player_take_damage(p, e.damage) ]
    ELSE [ enemy |-> e, player |-> p ]

\* Enemy.die
Enemy_die(e) == [e EXCEPT !.is_dead_flag = TRUE, !.death_timer = 0]

\* Enemy.take_damage without the early return on a dead enemy.
Enemy_take_damage_OnDead(e, damage, angle) ==
    Enemy_die([e EXCEPT !.hp = Max(0, e.hp - damage),
                        !.knockback_x =
                            TruncDiv(Cos1000(angle) * ENEMY_KNOCKBACK, 1000),
                        !.knockback_y =
                            TruncDiv(Sin1000(angle) * ENEMY_KNOCKBACK, 1000)])

\* Enemy.take_damage
Enemy_take_damage(e, damage, angle) ==
    IF e.is_dead_flag THEN e
    ELSE LET hit == [e EXCEPT !.hp = Max(0, e.hp - damage)]
             pushed == IF angle # NoAngle
                       THEN [hit EXCEPT
                               !.knockback_x =
                                   TruncDiv(Cos1000(angle) * ENEMY_KNOCKBACK, 1000),
                               !.knockback_y =
                                   TruncDiv(Sin1000(angle) * ENEMY_KNOCKBACK, 1000)]
                       ELSE hit
         IN  IF pushed.hp <= 0 THEN Enemy_die(pushed) ELSE pushed

\* Enemy.is_dead without the fade: true as soon as the enemy has died.
Enemy_is_dead_NoFade(e) == e.is_dead_flag

\* Enemy.is_dead: ready to be removed from the world.
Enemy_is_dead(e) == e.is_dead_flag /\ e.death_timer >= fade_duration

---------------------------------------------------------------------------
(* bullets.py: Bullet.update, BossBullet, SplitterBullet                   *)

BOUNDS_MARGIN == 50
SPLIT_COUNT == 5
SPLIT_SPREAD == 60
SPLIT_CHILD_SPEED == 450
SPLIT_CHILD_SIZE == 8

\* x += vx * dt, with vx = 1000 * cos(angle) * speed.
Advance(pos, v, d) == pos + TruncDiv(v * d, 1000 * TimeScale)

\* Bullet.update: the bullet after the call and whether it is still active.
Bullet_update(b, d) ==
    LET moved == [b EXCEPT !.x = Advance(b.x, b.vx, d),
                           !.y = Advance(b.y, b.vy, d),
                           !.life = @ + d]
    IN  [ bullet |-> moved,
          alive |-> ~HitsWall(BulletRect(moved)) /\ moved.life < moved.max_life ]

\* BossBullet.__init__
BossBullet(x, y, angle, speed, damage, size) ==
    [ kind |-> "boss", x |-> x, y |-> y,
      vx |-> Cos1000(angle) * speed, vy |-> Sin1000(angle) * speed,
      size |-> size, damage |-> damage ]

\* The bounds test without the 50 pixel margin.
OutOfBounds_NoMargin(x, y) ==
    x < 0 \/ x > SCREEN_W \/ y < 0 \/ y > SCREEN_H

\* x < -50 or x > SCREEN_W + 50 or y < -50 or y > SCREEN_H + 50
OutOfBounds(x, y) ==
    \/ x < -BOUNDS_MARGIN
    \/ x > SCREEN_W + BOUNDS_MARGIN
    \/ y < -BOUNDS_MARGIN
    \/ y > SCREEN_H + BOUNDS_MARGIN

\* BossBullet.update
BossBullet_update(b, d) ==
    LET moved == [b EXCEPT !.x = Advance(b.x, b.vx, d),
                           !.y = Advance(b.y, b.vy, d)]
    IN  [ bullet |-> moved,
          alive |-> ~HitsWall(BulletRect(moved)) /\ ~OutOfBounds(moved.x, moved.y) ]

\* SplitterBullet.__init__
SplitterBullet(x, y, angle, speed, damage, size, split_distance) ==
    [ kind |-> "split", x |-> x, y |-> y, start_x |-> x, start_y |-> y,
      angle |-> angle,
      vx |-> Cos1000(angle) * speed, vy |-> Sin1000(angle) * speed,
      size |-> size, damage |-> damage,
      split_distance |-> split_distance, distance_traveled |-> 0,
      has_split |-> FALSE ]

\* The offsets the comment in SplitterBullet.update names: -60, -30, 0, 30, 60.
SplitOffset_Wide(i) == (i - 2) * (SPLIT_SPREAD \div 2)

\* offset = (i - 2) * (spread_angle / 4), for i in range(5)
SplitOffset(i) == (i - 2) * (SPLIT_SPREAD \div 4)

\* The five BossBullets a SplitterBullet at (x, y) divides into.
SplitChildren(b) ==
    [ k \in 1..SPLIT_COUNT |->
        BossBullet(b.x, b.y, b.angle + SplitOffset(k - 1),
                   SPLIT_CHILD_SPEED, b.damage \div 2, SPLIT_CHILD_SIZE) ]

\* SplitterBullet.update reporting the bullet that just split as still
\* active.
SplitterBullet_update_KeepsParent(b, d) ==
    IF b.has_split
    THEN [bullet |-> b, alive |-> FALSE, split_bullets |-> <<>>]
    ELSE LET mx == Advance(b.x, b.vx, d)
             my == Advance(b.y, b.vy, d)
             moved == [b EXCEPT !.x = mx, !.y = my,
                         !.distance_traveled =
                             Hypot(mx - b.start_x, my - b.start_y)]
         IN  IF HitsWall(BulletRect(moved)) \/ OutOfBounds(moved.x, moved.y)
             THEN [bullet |-> moved, alive |-> FALSE, split_bullets |-> <<>>]
             ELSE IF moved.distance_traveled >= moved.split_distance
             THEN [ bullet |-> [moved EXCEPT !.has_split = TRUE],
                    alive |-> TRUE,
                    split_bullets |-> SplitChildren(moved) ]
             ELSE [bullet |-> moved, alive |-> TRUE, split_bullets |-> <<>>]

\* SplitterBullet.update: the bullet after the call, whether it is still
\* active, and the bullets it divided into.
SplitterBullet_update(b, d) ==
    IF b.has_split
    THEN [bullet |-> b, alive |-> FALSE, split_bullets |-> <<>>]
    ELSE LET mx == Advance(b.x, b.vx, d)
             my == Advance(b.y, b.vy, d)
             moved == [b EXCEPT !.x = mx, !.y = my,
                         !.distance_traveled =
                             Hypot(mx - b.start_x, my - b.start_y)]
         IN  IF HitsWall(BulletRect(moved))
             THEN [bullet |-> moved, alive |-> FALSE, split_bullets |-> <<>>]
             ELSE IF OutOfBounds(moved.x, moved.y)
             THEN [bullet |-> moved, alive |-> FALSE, split_bullets |-> <<>>]
             ELSE IF moved.distance_traveled >= moved.split_distance
                     /\ ~moved.has_split
             THEN [ bullet |-> [moved EXCEPT !.has_split = TRUE],
                    alive |-> FALSE,
                    split_bullets |-> SplitChildren(moved) ]
             ELSE [bullet |-> moved, alive |-> TRUE, split_bullets |-> <<>>]

---------------------------------------------------------------------------
(* bosses.py: BossBase and the five bosses.  One record holds the union of *)
(* the fields of all kinds; kind says which class the object is.           *)

BOSS_KNOCKBACK == 200
BOSS_KNOCKBACK_DECAY == 5
charge_speed == 700
charge_time == 10
charge_cd == 56
contact_damage == 30
knockback_power == 1200
summon_cd == 80
minions_per_cast == 5
KITE_DISTANCE == 250
vulnerable_time == 60
invuln_time == 60
SHIELD_SPEED_BONUS == 60
teleport_cd == 60
SNIPER_SHOOT_CD == 24
SPLITTER_SHOOT_CD == 30

BossKinds == {"charger", "summoner", "shielded", "sniper", "splitter"}

\* Game.active_boss = None
NoBoss == [kind |-> "none"]

\* BossBase.__init__, with the fields the subclasses add at their defaults.
BossBase(kind, x, y, size, hp) ==
    [ kind |-> kind, x |-> x, y |-> y, size |-> size,
      max_hp |-> hp, hp |-> hp, speed |-> 120,
      knockback_x |-> 0, knockback_y |-> 0, is_dead_flag |-> FALSE,
      state |-> "idle", charge_timer |-> 0,
      charge_dir_x |-> 0, charge_dir_y |-> 0, charge_cd_left |-> 0,
      summon_timer |-> 0,
      shield_timer |-> 0, invulnerable |-> FALSE,
      tp_timer |-> 0, shoot_timer |-> 0,
      bullets |-> <<>> ]

\* BossCharger.__init__
BossCharger(x, y) ==
    [BossBase("charger", x, y, 80, 3000) EXCEPT
        !.speed = 90, !.charge_cd_left = 24]

\* BossSummoner.__init__
BossSummoner(x, y) ==
    [BossBase("summoner", x, y, 90, 4000) EXCEPT
        !.speed = 70, !.summon_timer = 40]

\* BossShielded.__init__
BossShielded(x, y) ==
    [BossBase("shielded", x, y, 100, 7000) EXCEPT
        !.speed = 85, !.shield_timer = vulnerable_time]

\* BossSniper.__init__
BossSniper(x, y) ==
    [BossBase("sniper", x, y, 70, 4000) EXCEPT
        !.speed = 60, !.tp_timer = 20, !.shoot_timer = 5]

\* BossSplitter.__init__
BossSplitter(x, y) ==
    [BossBase("splitter", x, y, 85, 10000) EXCEPT
        !.speed = 100, !.charge_cd_left = 24, !.summon_timer = 40,
        !.shield_timer = vulnerable_time, !.tp_timer = 20, !.shoot_timer = 10]

\* BossCls(bx, by) for the class named kind.
NewBoss(kind, x, y) ==
    CASE kind = "charger" -> BossCharger(x, y)
      [] kind = "summoner" -> BossSummoner(x, y)
      [] kind = "shielded" -> BossShielded(x, y)
      [] kind = "sniper" -> BossSniper(x, y)
      [] kind = "splitter" -> BossSplitter(x, y)

BossRect(b) == RectAt(b.x, b.y, b.size)

\* BossBase.take_damage without the max(0, ...): health may go below zero.
BossBase_take_damage_NoClamp(b, dmg, angle) ==
    IF b.is_dead_flag THEN b
    ELSE [b EXCEPT !.hp = b.hp - dmg,
                   !.is_dead_flag = (b.hp - dmg <= 0)]

\* BossBase.take_damage
BossBase_take_damage(b, dmg, angle) ==
    IF b.is_dead_flag THEN b
    ELSE LET hit == [b EXCEPT !.hp = Max(0, b.hp - dmg)]
             pushed == IF angle # NoAngle
                       THEN [hit EXCEPT
                               !.knockback_x =
                                   TruncDiv(Cos1000(angle) * BOSS_KNOCKBACK, 1000),
                               !.knockback_y =
                                   TruncDiv(Sin1000(angle) * BOSS_KNOCKBACK, 1000)]
                       ELSE hit
         IN  IF pushed.hp <= 0 THEN [pushed EXCEPT !.is_dead_flag = TRUE]
                               ELSE pushed

\* BossShielded.take_damage
BossShielded_take_damage(b, dmg, angle) ==
    IF b.invulnerable THEN b ELSE BossBase_take_damage(b, dmg, angle)

\* BossSplitter.take_damage without the invulnerable window.
BossSplitter_take_damage_Unshielded(b, dmg, angle) ==
    BossBase_take_damage(b, dmg, angle)

\* BossSplitter.take_damage
BossSplitter_take_damage(b, dmg, angle) ==
    IF b.invulnerable THEN b ELSE BossBase_take_damage(b, dmg, angle)

\* active_boss.take_damage(dmg, angle), dispatched on the boss's class.
Boss_take_damage(b, dmg, angle) ==
    CASE b.kind = "shielded" -> BossShielded_take_damage(b, dmg, angle)
      [] b.kind = "splitter" -> BossSplitter_take_damage(b, dmg, angle)
      [] OTHER -> BossBase_take_damage(b, dmg, angle)

\* BossBase.is_dead
Boss_is_dead(b) == b.is_dead_flag

\* BossBase.move_towards_player
move_towards_player(b, d, p, speed) ==
    MoveTowards(b, p.x, p.y, speed, d, b.size, BOSS_KNOCKBACK_DECAY)

---------------------------------------------------------------------------
(* bosses.py: update.  A boss's update reads and changes the boss, the     *)
(* player and the enemy list of the game it is passed: c is the record     *)
(* [boss, player, enemies, wave] of these, and each operator gives the     *)
(* record after the step.  rnd holds the values the random module returns  *)
(* in the call: offs, the offsets of the minions summoned, and spot, the   *)
(* teleport destination chosen.                                            *)

\* The dash whose end on contact with the player leaves the cooldown as it
\* is, instead of restarting it.
ChargeDash_ContactKeepsCooldown(c, d) ==
    LET b == [c.boss EXCEPT !.charge_timer = @ - d]
        new_x == b.x + Displace(b.charge_dir_x, charge_speed, d)
        new_y == b.y + Displace(b.charge_dir_y, charge_speed, d)
        moved == [b EXCEPT !.x = new_x, !.y = new_y]
        blocked == HitsWall(RectAt(new_x, new_y, b.size))
        contact == ~blocked /\ colliderect(BossRect(moved), PlayerRect(c.player))
        b1 == IF blocked
              THEN [b EXCEPT !.state = "idle", !.charge_cd_left = charge_cd]
              ELSE IF contact
              THEN [moved EXCEPT !.state = "idle", !.charge_timer = 0]
              ELSE moved
        p1 == IF contact
              THEN Player_take_damage(
                       Player_apply_impulse(c.player,
                           TruncDiv(b.charge_dir_x * knockback_power, 1000),
                           TruncDiv(b.charge_dir_y * knockback_power, 1000)),
                       contact_damage)
              ELSE c.player
        b2 == IF b1.charge_timer <= 0 /\ b1.state = "charging"
              THEN [b1 EXCEPT !.state = "idle", !.charge_cd_left = charge_cd]
              ELSE b1
    IN  [c EXCEPT !.boss = b2, !.player = p1]

\* The dash of BossCharger.update and BossSplitter.update (state "charging").
ChargeDash(c, d) ==
    LET b == [c.boss EXCEPT !.charge_timer = @ - d]
        new_x == b.x + Displace(b.charge_dir_x, charge_speed, d)
        new_y == b.y + Displace(b.charge_dir_y, charge_speed, d)
        moved == [b EXCEPT !.x = new_x, !.y = new_y]
        blocked == HitsWall(RectAt(new_x, new_y, b.size))
        contact == ~blocked /\ colliderect(BossRect(moved), PlayerRect(c.player))
        b1 == IF blocked
              THEN [b EXCEPT !.state = "idle", !.charge_cd_left = charge_cd]
              ELSE IF contact
              THEN [moved EXCEPT !.state = "idle", !.charge_cd_left = charge_cd,
                                 !.charge_timer = 0]
              ELSE moved
        p1 == IF contact
              THEN Player_take_damage(
                       Player_apply_impulse(c.player,
                           TruncDiv(b.charge_dir_x * knockback_power, 1000),
                           TruncDiv(b.charge_dir_y * knockback_power, 1000)),
                       contact_damage)
              ELSE c.player
        b2 == IF b1.charge_timer <= 0 /\ b1.state = "charging"
              THEN [b1 EXCEPT !.state = "idle", !.charge_cd_left = charge_cd]
              ELSE b1
    IN  [c EXCEPT !.boss = b2, !.player = p1]

\* The start of a dash: the direction to the player is frozen.
StartCharge(b, p) ==
    LET dx == p.x - b.x
        dy == p.y - b.y
        h == Hypot(dx, dy)
        dist == IF h = 0 THEN 1 ELSE h
    IN  [b EXCEPT !.charge_dir_x = TruncDiv(dx * 1000, dist),
                  !.charge_dir_y = TruncDiv(dy * 1000, dist),
                  !.state = "charging", !.charge_timer = charge_time]

\* BossCharger.update
BossCharger_update(c, d, rnd) ==
    IF c.boss.is_dead_flag THEN c
    ELSE LET b0 == [c.boss EXCEPT !.charge_cd_left = @ - d]
             c0 == [c EXCEPT !.boss = b0]
         IN  IF b0.state = "charging"
             THEN ChargeDash(c0, d)
             ELSE LET b1 == move_towards_player(b0, d, c.player, b0.speed)
                  IN  [c0 EXCEPT !.boss =
                          IF b1.charge_cd_left <= 0 THEN StartCharge(b1, c.player)
                                                    ELSE b1]

RECURSIVE SummonFrom(_, _, _, _, _)
\* The loop of a cast: minion k of offs is appended unless it is in a wall.
SummonFrom(es, b, offs, k, wave) ==
    IF k > Len(offs) THEN es
    ELSE LET ex == b.x + offs[k][1]
             ey == b.y + offs[k][2]
             es1 == IF ~HitsWall(RectAt(ex, ey, ENEMY_SIZE))
                    THEN Append(es, NewEnemy(ex, ey, Max(1, wave)))
                    ELSE es
         IN  SummonFrom(es1, b, offs, k + 1, wave)

\* The cast of BossSummoner.update and BossSplitter.update.
Summon(c, rnd) ==
    IF c.boss.summon_timer <= 0
    THEN [c EXCEPT !.boss.summon_timer = summon_cd,
                   !.enemies = SummonFrom(c.enemies, c.boss, rnd.offs, 1, c.wave)]
    ELSE c

\* BossSummoner.update
BossSummoner_update(c, d, rnd) ==
    IF c.boss.is_dead_flag THEN c
    ELSE LET b0 == [c.boss EXCEPT !.summon_timer = @ - d]
             dx == c.player.x - b0.x
             dy == c.player.y - b0.y
             angle == Atan2Deg(dy, dx) + 90
             vx == Displace(Cos1000(angle), b0.speed, d)
             vy == Displace(Sin1000(angle), b0.speed, d)
             b1 == IF dx * dx + dy * dy < KITE_DISTANCE * KITE_DISTANCE
                   THEN move_towards_player(b0, d, c.player, -b0.speed)
                   ELSE IF ~HitsWall(RectAt(b0.x + vx, b0.y + vy, b0.size))
                   THEN [b0 EXCEPT !.x = @ + vx, !.y = @ + vy]
                   ELSE b0
         IN  Summon([c EXCEPT !.boss = b1], rnd)

\* The shield phases with an invulnerable window that is renewed when it
\* runs out.
ShieldPhase_NoRelease(b) ==
    IF b.shield_timer <= 0
    THEN [b EXCEPT !.invulnerable = TRUE, !.shield_timer = invuln_time]
    ELSE b

\* The shield phases of BossShielded.update and BossSplitter.update, after
\* the timer was decremented.
ShieldPhase(b) ==
    IF b.shield_timer <= 0
    THEN IF b.invulnerable
         THEN [b EXCEPT !.invulnerable = FALSE, !.shield_timer = vulnerable_time]
         ELSE [b EXCEPT !.invulnerable = TRUE, !.shield_timer = invuln_time]
    ELSE b

\* BossShielded.update
BossShielded_update(c, d, rnd) ==
    IF c.boss.is_dead_flag THEN c
    ELSE LET b0 == [c.boss EXCEPT !.shield_timer = @ - d]
             b1 == IF b0.invulnerable
                   THEN move_towards_player(b0, d, c.player,
                                            b0.speed + SHIELD_SPEED_BONUS)
                   ELSE move_towards_player(b0, d, c.player, b0.speed)
         IN  [c EXCEPT !.boss = ShieldPhase(b1)]

\* The six teleport destinations.
spots ==
    << <<100, 100>>, <<SCREEN_W - 100, 100>>,
       <<100, SCREEN_H - 100>>, <<SCREEN_W - 100, SCREEN_H - 100>>,
       <<SCREEN_W \div 2, 100>>, <<SCREEN_W \div 2, SCREEN_H - 100>> >>

\* The teleport of BossSniper.update and BossSplitter.update.
Teleport(b, spot) ==
    LET tx == spots[spot][1]
        ty == spots[spot][2]
        b0 == [b EXCEPT !.tp_timer = teleport_cd]
    IN  IF ~HitsWall(RectAt(tx, ty, b.size))
        THEN [b0 EXCEPT !.x = tx, !.y = ty]
        ELSE b0

RECURSIVE BossBulletsFrom_HitStays(_, _, _, _, _)
\* The bullet loop of BossSniper.update keeping a bullet that hit the player
\* in the list.
BossBulletsFrom_HitStays(bs, k, kept, p, d) ==
    IF k > Len(bs) THEN [bullets |-> kept, player |-> p]
    ELSE IF ~BossBullet_update(bs[k], d).alive
    THEN BossBulletsFrom_HitStays(bs, k + 1, kept, p, d)
    ELSE IF colliderect(BulletRect(BossBullet_update(bs[k], d).bullet),
                        PlayerRect(p))
    THEN BossBulletsFrom_HitStays(bs, k + 1,
             Append(kept, BossBullet_update(bs[k], d).bullet),
             Player_take_damage(p, bs[k].damage), d)
    ELSE BossBulletsFrom_HitStays(bs, k + 1,
             Append(kept, BossBullet_update(bs[k], d).bullet), p, d)

RECURSIVE BossBulletsFrom(_, _, _, _, _)
\* for b in self.bullets[:] over BossBullets, from index k: kept is the
\* list of those that stay, p the player after the hits so far.
BossBulletsFrom(bs, k, kept, p, d) ==
    IF k > Len(bs) THEN [bullets |-> kept, player |-> p]
    ELSE LET r == BossBullet_update(bs[k], d)
         IN  IF ~r.alive
             THEN BossBulletsFrom(bs, k + 1, kept, p, d)
             ELSE IF colliderect(BulletRect(r.bullet), PlayerRect(p))
             THEN BossBulletsFrom(bs, k + 1, kept,
                                  Player_take_damage(p, r.bullet.damage), d)
             ELSE BossBulletsFrom(bs, k + 1, Append(kept, r.bullet), p, d)

\* BossSniper.update
BossSniper_update(c, d, rnd) ==
    IF c.boss.is_dead_flag THEN c
    ELSE LET b0 == [c.boss EXCEPT !.tp_timer = @ - d, !.shoot_timer = @ - d]
             b1 == move_towards_player(b0, d, c.player, b0.speed)
             ang == Atan2Deg(c.player.y - b1.y, c.player.x - b1.x)
             b2 == IF b1.shoot_timer <= 0
                   THEN [b1 EXCEPT !.shoot_timer = SNIPER_SHOOT_CD,
                            !.bullets = Append(@,
                                BossBullet(b1.x, b1.y, ang, 550, 50, 8))]
                   ELSE b1
             r == BossBulletsFrom(b2.bullets, 1, <<>>, c.player, d)
             b3 == [b2 EXCEPT !.bullets = r.bullets]
             b4 == IF b3.tp_timer <= 0 THEN Teleport(b3, rnd.spot) ELSE b3
         IN  [c EXCEPT !.boss = b4, !.player = r.player]

RECURSIVE SplitterBulletsFrom_SplitFirst(_, _, _, _, _, _)
\* The bullet loop of BossSplitter.update with the two tests on a splitting
\* bullet in the other order: inactive (and so dividing) before the player.
SplitterBulletsFrom_SplitFirst(bs, k, kept, kids, p, d) ==
    IF k > Len(bs) THEN [bullets |-> kept \o kids, player |-> p]
    ELSE IF bs[k].kind = "split"
    THEN IF ~SplitterBullet_update(bs[k], d).alive
         THEN SplitterBulletsFrom_SplitFirst(bs, k + 1, kept,
                  kids \o SplitterBullet_update(bs[k], d).split_bullets, p, d)
         ELSE IF colliderect(BulletRect(SplitterBullet_update(bs[k], d).bullet),
                             PlayerRect(p))
         THEN SplitterBulletsFrom_SplitFirst(bs, k + 1, kept, kids,
                  Player_take_damage(p, bs[k].damage), d)
         ELSE SplitterBulletsFrom_SplitFirst(bs, k + 1,
                  Append(kept, SplitterBullet_update(bs[k], d).bullet),
                  kids, p, d)
    ELSE IF ~BossBullet_update(bs[k], d).alive
         THEN SplitterBulletsFrom_SplitFirst(bs, k + 1, kept, kids, p, d)
         ELSE IF colliderect(BulletRect(BossBullet_update(bs[k], d).bullet),
                             PlayerRect(p))
         THEN SplitterBulletsFrom_SplitFirst(bs, k + 1, kept, kids,
                  Player_take_damage(p, bs[k].damage), d)
         ELSE SplitterBulletsFrom_SplitFirst(bs, k + 1,
                  Append(kept, BossBullet_update(bs[k], d).bullet),
                  kids, p, d)

RECURSIVE SplitterBulletsFrom(_, _, _, _, _, _)
\* for b in self.bullets[:] of BossSplitter.update, from index k: kept is
\* the list of those that stay, kids the bullets self.bullets.extend added,
\* p the player after the hits so far.
SplitterBulletsFrom(bs, k, kept, kids, p, d) ==
    IF k > Len(bs) THEN [bullets |-> kept \o kids, player |-> p]
    ELSE IF bs[k].kind = "split"
    THEN LET r == SplitterBullet_update(bs[k], d)
         IN  IF colliderect(BulletRect(r.bullet), PlayerRect(p))
             THEN SplitterBulletsFrom(bs, k + 1, kept, kids,
                      Player_take_damage(p, r.bullet.damage), d)
             ELSE IF ~r.alive
             THEN SplitterBulletsFrom(bs, k + 1, kept,
                      kids \o r.split_bullets, p, d)
             ELSE SplitterBulletsFrom(bs, k + 1, Append(kept, r.bullet),
                      kids, p, d)
    ELSE LET r == BossBullet_update(bs[k], d)
         IN  IF ~r.alive
             THEN SplitterBulletsFrom(bs, k + 1, kept, kids, p, d)
             ELSE IF colliderect(BulletRect(r.bullet), PlayerRect(p))
             THEN SplitterBulletsFrom(bs, k + 1, kept, kids,
                      Player_take_damage(p, r.bullet.damage), d)
             ELSE SplitterBulletsFrom(bs, k + 1, Append(kept, r.bullet),
                      kids, p, d)

\* BossSplitter.update with a shield that runs only while the boss is idle:
\* during a dash the shield timer stands still.
BossSplitter_update_ShieldWaits(c, d, rnd) ==
    IF c.boss.is_dead_flag THEN c
    ELSE LET b0 == ShieldPhase(
                     [c.boss EXCEPT !.charge_cd_left = @ - d,
                                    !.summon_timer = @ - d,
                                    !.tp_timer = @ - d,
                                    !.shoot_timer = @ - d,
                                    !.shield_timer =
                                        IF c.boss.state = "charging"
                                        THEN @ ELSE @ - d])
             c0 == [c EXCEPT !.boss = b0]
             \* the charge state machine, with teleport and movement when idle
             c1 == IF b0.state = "charging"
                   THEN ChargeDash(c0, d)
                   ELSE LET b1 == IF b0.tp_timer <= 0 THEN Teleport(b0, rnd.spot)
                                                      ELSE b0
                            dx == c.player.x - b1.x
                            dy == c.player.y - b1.y
                            b2 == IF dx * dx + dy * dy < KITE_DISTANCE * KITE_DISTANCE
                                  THEN move_towards_player(b1, d, c.player, -b1.speed)
                                  ELSE move_towards_player(b1, d, c.player,
                                         IF b1.invulnerable
                                         THEN b1.speed + SHIELD_SPEED_BONUS
                                         ELSE b1.speed)
                        IN  [c0 EXCEPT !.boss =
                                IF b2.charge_cd_left <= 0
                                THEN StartCharge(b2, c.player) ELSE b2]
             c2 == Summon(c1, rnd)
             b3 == c2.boss
             ang == Atan2Deg(c2.player.y - b3.y, c2.player.x - b3.x)
             b4 == IF b3.shoot_timer <= 0
                   THEN [b3 EXCEPT !.shoot_timer = SPLITTER_SHOOT_CD,
                            !.bullets = Append(@,
                                SplitterBullet(b3.x, b3.y, ang, 400, 25, 16, 300))]
                   ELSE b3
             r == SplitterBulletsFrom(b4.bullets, 1, <<>>, <<>>, c2.player, d)
         IN  [c2 EXCEPT !.boss = [b4 EXCEPT !.bullets = r.bullets],
                        !.player = r.player]

\* BossSplitter.update with the teleport checked in every tick, dash or not.
BossSplitter_update_TeleportAnytime(c, d, rnd) ==
    IF c.boss.is_dead_flag THEN c
    ELSE LET b0 == ShieldPhase(
                     [c.boss EXCEPT !.charge_cd_left = @ - d,
                                    !.summon_timer = @ - d,
                                    !.tp_timer = @ - d,
                                    !.shoot_timer = @ - d,
                                    !.shield_timer = @ - d])
             c0 == [c EXCEPT !.boss = IF b0.state = "charging" /\ b0.tp_timer <= 0
                                      THEN Teleport(b0, rnd.spot) ELSE b0]
             \* the charge state machine, with teleport and movement when idle
             c1 == IF b0.state = "charging"
                   THEN ChargeDash(c0, d)
                   ELSE LET b1 == IF b0.tp_timer <= 0 THEN Teleport(b0, rnd.spot)
                                                      ELSE b0
                            dx == c.player.x - b1.x
                            dy == c.player.y - b1.y
                            b2 == IF dx * dx + dy * dy < KITE_DISTANCE * KITE_DISTANCE
                                  THEN move_towards_player(b1, d, c.player, -b1.speed)
                                  ELSE move_towards_player(b1, d, c.player,
                                         IF b1.invulnerable
                                         THEN b1.speed + SHIELD_SPEED_BONUS
                                         ELSE b1.speed)
                        IN  [c0 EXCEPT !.boss =
                                IF b2.charge_cd_left <= 0
                                THEN StartCharge(b2, c.player) ELSE b2]
             c2 == Summon(c1, rnd)
             b3 == c2.boss
             ang == Atan2Deg(c2.player.y - b3.y, c2.player.x - b3.x)
             b4 == IF b3.shoot_timer <= 0
                   THEN [b3 EXCEPT !.shoot_timer = SPLITTER_SHOOT_CD,
                            !.bullets = Append(@,
                                SplitterBullet(b3.x, b3.y, ang, 400, 25, 16, 300))]
                   ELSE b3
             r == SplitterBulletsFrom(b4.bullets, 1, <<>>, <<>>, c2.player, d)
         IN  [c2 EXCEPT !.boss = [b4 EXCEPT !.bullets = r.bullets],
                        !.player = r.player]

\* BossSplitter.update
BossSplitter_update(c, d, rnd) ==
    IF c.boss.is_dead_flag THEN c
    ELSE LET b0 == ShieldPhase(
                     [c.boss EXCEPT !.charge_cd_left = @ - d,
                                    !.summon_timer = @ - d,
                                    !.tp_timer = @ - d,
                                    !.shoot_timer = @ - d,
                                    !.shield_timer = @ - d])
             c0 == [c EXCEPT !.boss = b0]
             \* the charge state machine, with teleport and movement when idle
             c1 == IF b0.state = "charging"
                   THEN ChargeDash(c0, d)
                   ELSE LET b1 == IF b0.tp_timer <= 0 THEN Teleport(b0, rnd.spot)
                                                      ELSE b0
                            dx == c.player.x - b1.x
                            dy == c.player.y - b1.y
                            b2 == IF dx * dx + dy * dy < KITE_DISTANCE * KITE_DISTANCE
                                  THEN move_towards_player(b1, d, c.player, -b1.speed)
                                  ELSE move_towards_player(b1, d, c.player,
                                         IF b1.invulnerable
                                         THEN b1.speed + SHIELD_SPEED_BONUS
                                         ELSE b1.speed)
                        IN  [c0 EXCEPT !.boss =
                                IF b2.charge_cd_left <= 0
                                THEN StartCharge(b2, c.player) ELSE b2]
             c2 == Summon(c1, rnd)
             b3 == c2.boss
             ang == Atan2Deg(c2.player.y - b3.y, c2.player.x - b3.x)
             b4 == IF b3.shoot_timer <= 0
                   THEN [b3 EXCEPT !.shoot_timer = SPLITTER_SHOOT_CD,
                            !.bullets = Append(@,
                                SplitterBullet(b3.x, b3.y, ang, 400, 25, 16, 300))]
                   ELSE b3
             r == SplitterBulletsFrom(b4.bullets, 1, <<>>, <<>>, c2.player, d)
         IN  [c2 EXCEPT !.boss = [b4 EXCEPT !.bullets = r.bullets],
                        !.player = r.player]

\* active_boss.update(dt, game), dispatched on the boss's class.
Boss_update(c, d, rnd) ==
    CASE c.boss.kind = "charger" -> BossCharger_update(c, d, rnd)
      [] c.boss.kind = "summoner" -> BossSummoner_update(c, d, rnd)
      [] c.boss.kind = "shielded" -> BossShielded_update(c, d, rnd)
      [] c.boss.kind = "sniper" -> BossSniper_update(c, d, rnd)
      [] c.boss.kind = "splitter" -> BossSplitter_update(c, d, rnd)

---------------------------------------------------------------------------
(* game.py: Game.__init__, power-ups                                       *)

NoEvent == [op |-> "init", who |-> 0, arg |-> 0, angle |-> NoAngle,
            pre |-> <<>>, ret |-> FALSE]

\* One call, as observed: op names the method, who the index of the enemy it
\* was called on (0: the player or the boss), arg its numeric argument, pre
\* the object (or objects) before the call, ret what the call returned.
Event(op, who, arg, angle, pre, ret) ==
    [op |-> op, who |-> who, arg |-> arg, angle |-> angle,
     pre |-> pre, ret |-> ret]

\* The scalar fields Game.__init__ sets.
NewGame ==
    [ running |-> TRUE, paused |-> FALSE, game_over |-> FALSE,
      in_menu |-> TRUE, showing_upgrades |-> FALSE,
      current_wave |-> 1, enemies_remaining |-> 0,
      wave_clear_time |-> 0, spawn_timer |-> 0,
      power_up_spawn_timer |-> 0,
      upgrade_rects |-> FALSE ]        \* the upgrade cards have been laid out

PowerTypes == {"health", "armor", "regen"}

\* Game.apply_power_up: the effect on the player.
apply_power_up(p, power_type) ==
    CASE power_type = "health" ->
            [p EXCEPT !.max_hp = @ + 25, !.hp = Min(p.max_hp + 25, p.hp + 25)]
      [] power_type = "armor" -> [p EXCEPT !.armor = @ + 3]
      [] power_type = "regen" -> [p EXCEPT !.hp = Min(p.max_hp, p.hp + 10)]

---------------------------------------------------------------------------
(* powerup.py: PowerUp                                                     *)

POWER_UP_SIZE == 28
POWER_UP_LIFETIME == 240
power_up_spawn_rate == 160

\* PowerUp.__init__
PowerUp(x, y, power_type) ==
    [ x |-> x, y |-> y, power_type |-> power_type,
      collected |-> FALSE, time_left |-> POWER_UP_LIFETIME ]

PowerUpRect(u) == RectAt(u.x, u.y, POWER_UP_SIZE)

\* PowerUp.update: the power-up after the call and whether it is active.
PowerUp_update(u, d) ==
    IF u.collected THEN [power_up |-> u, active |-> FALSE]
    ELSE [ power_up |-> [u EXCEPT !.time_left = @ - d],
           active |-> u.time_left - d > 0 ]

---------------------------------------------------------------------------
(* game.py: Game.update.  w is the record [player, bullets, enemies,       *)
(* power_ups, boss, g] of the game's objects and scalar fields; each step  *)
(* gives the record after it.  rnd holds what the random module returns    *)
(* during the frame.                                                       *)

wave_clear_delay == 40
BOSS_CONTACT_DAMAGE == 15
SPAWN_RETRIES == 20
BOSS_SPAWN_DY == 150

\* Game.boss_waves: the class of the boss of a wave ("none": no boss wave).
boss_waves(wave) ==
    CASE wave = 3 -> "charger"
      [] wave = 6 -> "summoner"
      [] wave = 9 -> "shielded"
      [] wave = 12 -> "sniper"
      [] wave = 15 -> "splitter"
      [] OTHER -> "none"

World == [ player |-> player, bullets |-> bullets, enemies |-> enemies,
           power_ups |-> power_ups, boss |-> active_boss, g |-> game ]

\* Game.spawn_power_up: rnd.pu_type at rnd.pu_pos, the place the retries
\* end on; a place that is not free is what 50 failed tries leave: nothing.
spawn_power_up(w, rnd) ==
    LET r == RectAt(rnd.pu_pos[1], rnd.pu_pos[2], 40)
        free == /\ ~HitsWall(r)
                /\ ~colliderect(r, inflate(PlayerRect(w.player), 20, 20))
                /\ \A i \in 1..Len(w.enemies) :
                      ~colliderect(r, inflate(EnemyRect(w.enemies[i]), 10, 10))
    IN  IF free
        THEN [w EXCEPT !.power_ups =
                 Append(@, PowerUp(rnd.pu_pos[1], rnd.pu_pos[2], rnd.pu_type))]
        ELSE w

RECURSIVE ExpirePowerUps(_, _, _)
\* for pu in self.power_ups[:]: if not pu.update(dt): remove
ExpirePowerUps(us, k, d) ==
    IF k > Len(us) THEN <<>>
    ELSE LET r == PowerUp_update(us[k], d)
         IN  (IF r.active THEN <<r.power_up>> ELSE <<>>)
             \o ExpirePowerUps(us, k + 1, d)

RECURSIVE CollectPowerUps(_, _, _)
\* Game.check_power_up_collision, from power-up k on: the power-ups that
\* stay and the player after the pickups.
CollectPowerUps(us, k, p) ==
    IF k > Len(us) THEN [power_ups |-> <<>>, player |-> p]
    ELSE IF ~us[k].collected /\ colliderect(PlayerRect(p), PowerUpRect(us[k]))
    THEN CollectPowerUps(us, k + 1, apply_power_up(p, us[k].power_type))
    ELSE LET r == CollectPowerUps(us, k + 1, p)
         IN  [r EXCEPT !.power_ups = <<us[k]>> \o @]

\* Game.update, "Power-ups", with the pickup test ahead of the lifetime
\* update: a power-up can be collected in the tick in which it expires.
StepPowerUps_CollectFirst(w, d, rnd) ==
    [w EXCEPT !.g.power_up_spawn_timer =
                  IF @ + d >= power_up_spawn_rate THEN 0 ELSE @ + d,
              !.power_ups =
                  ExpirePowerUps(
                      CollectPowerUps(
                          IF w.g.power_up_spawn_timer + d >= power_up_spawn_rate
                          THEN spawn_power_up(w, rnd).power_ups ELSE w.power_ups,
                          1, w.player).power_ups, 1, d),
              !.player =
                  CollectPowerUps(
                      IF w.g.power_up_spawn_timer + d >= power_up_spawn_rate
                      THEN spawn_power_up(w, rnd).power_ups ELSE w.power_ups,
                      1, w.player).player]

\* Game.update, "Power-ups"
StepPowerUps(w, d, rnd) ==
    LET t == w.g.power_up_spawn_timer + d
        w1 == IF t >= power_up_spawn_rate
              THEN [spawn_power_up(w, rnd) EXCEPT !.g.power_up_spawn_timer = 0]
              ELSE [w EXCEPT !.g.power_up_spawn_timer = t]
        r == CollectPowerUps(ExpirePowerUps(w1.power_ups, 1, d), 1, w1.player)
    IN  [w1 EXCEPT !.power_ups = r.power_ups, !.player = r.player]

RECURSIVE StepBulletsFrom(_, _, _)
\* Game.update, "Balas do player"
StepBulletsFrom(bs, k, d) ==
    IF k > Len(bs) THEN <<>>
    ELSE LET r == Bullet_update(bs[k], d)
         IN  (IF r.alive THEN <<r.bullet>> ELSE <<>>)
             \o StepBulletsFrom(bs, k + 1, d)

RECURSIVE StepEnemiesFrom(_, _, _, _, _)
\* Game.update, "Inimigos comuns": from enemy k on, the enemies that stay
\* and the player after their attacks.
StepEnemiesFrom(es, k, p, d, current_time) ==
    IF k > Len(es) THEN [enemies |-> <<>>, player |-> p]
    ELSE LET e1 == Enemy_update(es[k], d, p)
             a == Enemy_attack(e1, p, current_time)
             r == StepEnemiesFrom(es, k + 1, a.player, d, current_time)
         IN  IF Enemy_is_dead(a.enemy) THEN r
             ELSE [r EXCEPT !.enemies = <<a.enemy>> \o @]

\* The first enemy of es whose rect the bullet's rect intersects (0: none).
FirstHit(es, b) ==
    LET hits == {i \in 1..Len(es) : colliderect(BulletRect(b), EnemyRect(es[i]))}
    IN  IF hits = {} THEN 0 ELSE CHOOSE i \in hits : \A j \in hits : i <= j

RECURSIVE StepCollisionsFrom_Piercing(_, _, _, _)
\* The collision step with bullets that pierce: a bullet damages every enemy
\* it overlaps, and the boss too.
StepCollisionsFrom_Piercing(bs, k, es, boss) ==
    IF k > Len(bs) THEN [bullets |-> <<>>, enemies |-> es, boss |-> boss]
    ELSE LET b == bs[k]
             on(i) == colliderect(BulletRect(b), EnemyRect(es[i]))
             hit_boss == /\ boss.kind # "none"
                         /\ colliderect(BulletRect(b), BossRect(boss))
             es1 == [i \in 1..Len(es) |->
                        IF on(i) THEN Enemy_take_damage(es[i], b.damage, b.angle)
                        ELSE es[i]]
             boss1 == IF hit_boss THEN Boss_take_damage(boss, b.damage, b.angle)
                                  ELSE boss
             r == StepCollisionsFrom_Piercing(bs, k + 1, es1, boss1)
         IN  IF hit_boss \/ \E i \in 1..Len(es) : on(i) THEN r
             ELSE [r EXCEPT !.bullets = <<b>> \o @]

RECURSIVE StepCollisionsFrom(_, _, _, _)
\* Game.update, "Colisao bala-inimigo/boss", from bullet k on: the bullets
\* that stay, and the enemies and the boss after the hits.
StepCollisionsFrom(bs, k, es, boss) ==
    IF k > Len(bs) THEN [bullets |-> <<>>, enemies |-> es, boss |-> boss]
    ELSE LET b == bs[k]
             i == FirstHit(es, b)
             hit_boss == /\ i = 0
                         /\ boss.kind # "none"
                         /\ colliderect(BulletRect(b), BossRect(boss))
             es1 == IF i # 0
                    THEN [es EXCEPT ![i] = Enemy_take_damage(@, b.damage, b.angle)]
                    ELSE es
             boss1 == IF hit_boss THEN Boss_take_damage(boss, b.damage, b.angle)
                                  ELSE boss
             r == StepCollisionsFrom(bs, k + 1, es1, boss1)
         IN  IF i # 0 \/ hit_boss THEN r
             ELSE [r EXCEPT !.bullets = <<b>> \o @]

StepCollisions(w) ==
    IF Len(w.bullets) > 0 /\ (Len(w.enemies) > 0 \/ w.boss.kind # "none")
    THEN LET r == StepCollisionsFrom(w.bullets, 1, w.enemies, w.boss)
         IN  [w EXCEPT !.bullets = r.bullets, !.enemies = r.enemies,
                       !.boss = r.boss]
    ELSE w

\* Game.update, "Dano de contato do boss"
StepBossContact(w) ==
    IF w.boss.kind # "none" /\ colliderect(PlayerRect(w.player), BossRect(w.boss))
    THEN [w EXCEPT !.player = Player_take_damage(@, BOSS_CONTACT_DAMAGE)]
    ELSE w

\* Game.update with a game-over test that never fires.
StepGameOver_Never(w) == w

\* Game.update, "Game over"
StepGameOver(w) ==
    IF w.player.hp <= 0 THEN [w EXCEPT !.g.game_over = TRUE] ELSE w

\* Game.spawn_enemy: the game after the call and what it returned.  The
\* retries end on rnd.spawn_pos; a place that is not free is what
\* SPAWN_RETRIES failed tries leave: no enemy.
spawn_enemy(w, rnd) ==
    LET x == rnd.spawn_pos[1]
        y == rnd.spawn_pos[2]
        r == RectAt(x, y, ENEMY_SIZE)
        free == /\ ~HitsWall(r)
                /\ ~colliderect(r, inflate(PlayerRect(w.player), 40, 40))
                /\ \A i \in 1..Len(w.enemies) :
                      ~colliderect(r, inflate(EnemyRect(w.enemies[i]), 10, 10))
    IN  IF w.boss.kind # "none" THEN [w |-> w, ret |-> FALSE]
        ELSE IF free
        THEN [ w |-> [w EXCEPT !.enemies =
                         Append(@, NewEnemy(x, y, w.g.current_wave))],
               ret |-> TRUE ]
        ELSE [w |-> w, ret |-> FALSE]

\* Game.start_wave giving every wave the three enemies of wave 1.
start_wave_FlatQuota(w) ==
    LET n == w.g.current_wave + 1
    IN  [w EXCEPT !.g.current_wave = n,
                  !.boss = NoBoss,
                  !.g.enemies_remaining =
                      IF boss_waves(n) # "none" THEN 0 ELSE 3,
                  !.g.spawn_timer = 0]

\* Game.start_wave counting two waves at once.
start_wave_Skip(w) ==
    [w EXCEPT !.g.current_wave = @ + 2,
              !.boss = NoBoss,
              !.g.enemies_remaining =
                  IF boss_waves(w.g.current_wave + 2) # "none"
                  THEN 0 ELSE 3 + (w.g.current_wave + 1) * 2,
              !.g.spawn_timer = 0]

\* Game.start_wave
start_wave(w) ==
    LET n == w.g.current_wave + 1
    IN  [w EXCEPT !.g.current_wave = n,
                  !.boss = NoBoss,
                  !.g.enemies_remaining =
                      IF boss_waves(n) # "none" THEN 0 ELSE 3 + (n - 1) * 2,
                  !.g.spawn_timer = 0]

\* Game.spawn_boss creating nothing.
spawn_boss_Never(w) == w

\* Game.spawn_boss creating the first boss whatever the wave.
spawn_boss_AlwaysCharger(w) ==
    IF w.boss.kind # "none" THEN w
    ELSE IF boss_waves(w.g.current_wave) # "none"
    THEN [w EXCEPT !.boss = BossCharger(SCREEN_W \div 2,
                                        SCREEN_H \div 2 - BOSS_SPAWN_DY)]
    ELSE w

\* Game.spawn_boss
spawn_boss(w) ==
    IF w.boss.kind # "none" THEN w
    ELSE IF boss_waves(w.g.current_wave) # "none"
    THEN [w EXCEPT !.boss = NewBoss(boss_waves(w.g.current_wave),
                                    SCREEN_W \div 2,
                                    SCREEN_H \div 2 - BOSS_SPAWN_DY)]
    ELSE w

\* The wave-clear sequence starting the next wave in the tick that finds the
\* wave clear, without the delay.
WaveClear_NoDelay(w, current_time) ==
    [start_wave(w) EXCEPT !.g.wave_clear_time = 0,
                          !.g.showing_upgrades = FALSE]

\* The wave-clear sequence opening the upgrade screen only once the delay
\* has passed since the wave was found clear.
WaveClear_GateAfterDelay(w, current_time) ==
    IF w.g.wave_clear_time = 0
    THEN [w EXCEPT !.g.wave_clear_time = current_time]
    ELSE IF current_time - w.g.wave_clear_time >= wave_clear_delay
    THEN [w EXCEPT !.g.showing_upgrades = TRUE]
    ELSE w

\* The wave-clear sequence of Game.update_wave: the first time it stamps the
\* clear and opens the upgrade screen; once wave_clear_delay has passed on
\* the clock it starts the next wave.
WaveClear(w, current_time) ==
    LET w1 == IF w.g.wave_clear_time = 0
              THEN [w EXCEPT !.g.wave_clear_time = current_time,
                             !.g.showing_upgrades = TRUE]
              ELSE w
    IN  IF current_time - w1.g.wave_clear_time >= wave_clear_delay
        THEN [start_wave(w1) EXCEPT !.g.wave_clear_time = 0,
                                    !.g.showing_upgrades = FALSE]
        ELSE w1

\* Game.update_wave taking a dead boss for no boss when it decides to spawn.
update_wave_Respawn(w, d, current_time, rnd) ==
    IF boss_waves(w.g.current_wave) # "none"
    THEN IF (w.boss.kind = "none" \/ w.boss.is_dead_flag) /\ Len(w.enemies) = 0
         THEN [w EXCEPT !.boss = NewBoss(boss_waves(w.g.current_wave),
                                         SCREEN_W \div 2,
                                         SCREEN_H \div 2 - BOSS_SPAWN_DY)]
         ELSE IF w.boss.kind # "none" /\ Boss_is_dead(w.boss)
                 /\ ~w.g.showing_upgrades
         THEN IF w.boss.kind = "splitter"
              THEN [w EXCEPT !.g.game_over = TRUE]
              ELSE WaveClear([w EXCEPT !.enemies = <<>>], current_time)
         ELSE w
    ELSE IF w.g.enemies_remaining > 0
    THEN IF w.g.spawn_timer + d >= ENEMY_SPAWN_RATE /\ spawn_enemy(w, rnd).ret
         THEN [spawn_enemy(w, rnd).w EXCEPT !.g.enemies_remaining = @ - 1,
                                            !.g.spawn_timer = 0]
         ELSE [w EXCEPT !.g.spawn_timer = @ + d]
    ELSE IF Len(w.enemies) = 0 /\ ~w.g.showing_upgrades
    THEN WaveClear(w, current_time)
    ELSE w

\* Game.update_wave without self.enemies.clear() on the boss's death.
update_wave_NoClear(w, d, current_time, rnd) ==
    IF boss_waves(w.g.current_wave) # "none"
    THEN IF w.boss.kind = "none" /\ Len(w.enemies) = 0
         THEN spawn_boss(w)
         ELSE IF w.boss.kind # "none" /\ Boss_is_dead(w.boss)
                 /\ ~w.g.showing_upgrades
         THEN IF w.boss.kind = "splitter"
              THEN [w EXCEPT !.g.game_over = TRUE]
              ELSE WaveClear(w, current_time)
         ELSE w
    ELSE IF w.g.enemies_remaining > 0
    THEN IF w.g.spawn_timer + d >= ENEMY_SPAWN_RATE /\ spawn_enemy(w, rnd).ret
         THEN [spawn_enemy(w, rnd).w EXCEPT !.g.enemies_remaining = @ - 1,
                                            !.g.spawn_timer = 0]
         ELSE [w EXCEPT !.g.spawn_timer = @ + d]
    ELSE IF Len(w.enemies) = 0 /\ ~w.g.showing_upgrades
    THEN WaveClear(w, current_time)
    ELSE w

\* Game.update_wave treating the final boss like the others.
update_wave_NoFinal(w, d, current_time, rnd) ==
    IF boss_waves(w.g.current_wave) # "none"
    THEN IF w.boss.kind = "none" /\ Len(w.enemies) = 0
         THEN spawn_boss(w)
         ELSE IF w.boss.kind # "none" /\ Boss_is_dead(w.boss)
                 /\ ~w.g.showing_upgrades
         THEN WaveClear([w EXCEPT !.enemies = <<>>], current_time)
         ELSE w
    ELSE IF w.g.enemies_remaining > 0
    THEN IF w.g.spawn_timer + d >= ENEMY_SPAWN_RATE /\ spawn_enemy(w, rnd).ret
         THEN [spawn_enemy(w, rnd).w EXCEPT !.g.enemies_remaining = @ - 1,
                                            !.g.spawn_timer = 0]
         ELSE [w EXCEPT !.g.spawn_timer = @ + d]
    ELSE IF Len(w.enemies) = 0 /\ ~w.g.showing_upgrades
    THEN WaveClear(w, current_time)
    ELSE w

\* Game.update_wave giving up the slot of a failed spawn: the enemy is
\* counted as spawned and the timer restarts.
update_wave_DropsFailed(w, d, current_time, rnd) ==
    IF boss_waves(w.g.current_wave) # "none"
    THEN IF w.boss.kind = "none" /\ Len(w.enemies) = 0
         THEN spawn_boss(w)
         ELSE IF w.boss.kind # "none" /\ Boss_is_dead(w.boss)
                 /\ ~w.g.showing_upgrades
         THEN IF w.boss.kind = "splitter"
              THEN [w EXCEPT !.g.game_over = TRUE]
              ELSE WaveClear([w EXCEPT !.enemies = <<>>], current_time)
         ELSE w
    ELSE IF w.g.enemies_remaining > 0
    THEN IF w.g.spawn_timer + d >= ENEMY_SPAWN_RATE
         THEN [spawn_enemy(w, rnd).w EXCEPT !.g.enemies_remaining = @ - 1,
                                            !.g.spawn_timer = 0]
         ELSE [w EXCEPT !.g.spawn_timer = @ + d]
    ELSE IF Len(w.enemies) = 0 /\ ~w.g.showing_upgrades
    THEN WaveClear(w, current_time)
    ELSE w

\* Game.update_wave
update_wave(w, d, current_time, rnd) ==
    IF boss_waves(w.g.current_wave) # "none"
    THEN LET w1 == IF w.boss.kind = "none" /\ Len(w.enemies) = 0
                   THEN spawn_boss(w) ELSE w
         IN  IF w1.boss.kind # "none" /\ Boss_is_dead(w1.boss)
                /\ ~w1.g.showing_upgrades
             THEN IF w1.boss.kind = "splitter"
                  THEN [w1 EXCEPT !.g.game_over = TRUE]
                  ELSE WaveClear([w1 EXCEPT !.enemies = <<>>], current_time)
             ELSE w1
    ELSE IF w.g.enemies_remaining > 0
    THEN LET t == w.g.spawn_timer + d
             r == spawn_enemy(w, rnd)
         IN  IF t >= ENEMY_SPAWN_RATE
             THEN IF r.ret
                  THEN [r.w EXCEPT !.g.enemies_remaining = @ - 1,
                                   !.g.spawn_timer = 0]
                  ELSE [w EXCEPT !.g.spawn_timer = t]
             ELSE [w EXCEPT !.g.spawn_timer = t]
    ELSE IF Len(w.enemies) = 0 /\ ~w.g.showing_upgrades
    THEN WaveClear(w, current_time)
    ELSE w

\* Game.update, the player's part: movement, aim, reload progress.
StepPlayer(w, d, current_time, keys, mouse_pos) ==
    [w EXCEPT !.player =
        Player_update_reload(
            rotate_to_mouse(Player_update(@, d, keys), mouse_pos), current_time)]

\* Game.update, the loop over the player's bullets.
StepBullets(w, d) == [w EXCEPT !.bullets = StepBulletsFrom(@, 1, d)]

\* Game.update, the loop over the enemies: en is what the loop leaves.
WithEnemies(w, en) == [w EXCEPT !.enemies = en.enemies, !.player = en.player]

StepEnemies(w, d, current_time) ==
    WithEnemies(w, StepEnemiesFrom(w.enemies, 1, w.player, d, current_time))

\* Game.update, active_boss.update(dt, self): c is what update leaves.
BossContext(w) ==
    [boss |-> w.boss, player |-> w.player, enemies |-> w.enemies,
     wave |-> w.g.current_wave]

WithBoss(w, c) ==
    [w EXCEPT !.boss = c.boss, !.player = c.player, !.enemies = c.enemies]

StepBoss(w, d, rnd) ==
    IF w.boss.kind # "none"
    THEN WithBoss(w, Boss_update(BossContext(w), d, rnd))
    ELSE w

\* Game.update
Game_update(w, d, current_time, keys, mouse_pos, rnd) ==
    IF w.g.in_menu \/ w.g.paused \/ w.g.game_over \/ w.g.showing_upgrades
    THEN w
    ELSE update_wave(
             StepGameOver(StepBossContact(StepCollisions(
                 StepBoss(
                     StepEnemies(
                         StepBullets(
                             StepPowerUps(
                                 StepPlayer(w, d, current_time, keys, mouse_pos),
                                 d, rnd),
                             d),
                         d, current_time),
                     d, rnd)))),
             d, current_time, rnd)

---------------------------------------------------------------------------
(* game.py: event handlers and drawing                                     *)

\* Game.start_game
start_game(w) ==
    [w EXCEPT !.g = [@ EXCEPT !.in_menu = FALSE, !.game_over = FALSE,
                              !.paused = FALSE, !.showing_upgrades = FALSE,
                              !.current_wave = 1, !.enemies_remaining = 3,
                              !.wave_clear_time = 0, !.spawn_timer = 0,
                              !.power_up_spawn_timer = 0],
              !.player = NewPlayer(SCREEN_W \div 2, SCREEN_H \div 2),
              !.bullets = <<>>, !.enemies = <<>>, !.power_ups = <<>>,
              !.boss = NoBoss]

\* Game.restart_game
restart_game(w) ==
    [w EXCEPT !.player = NewPlayer(SCREEN_W \div 2, SCREEN_H \div 2),
              !.bullets = <<>>, !.enemies = <<>>, !.power_ups = <<>>,
              !.boss = NoBoss,
              !.g = [@ EXCEPT !.current_wave = 1, !.enemies_remaining = 3,
                              !.wave_clear_time = 0, !.spawn_timer = 0,
                              !.power_up_spawn_timer = 0,
                              !.game_over = FALSE, !.paused = FALSE,
                              !.showing_upgrades = FALSE, !.in_menu = FALSE]]

\* Game.select_upgrade leaving the upgrade screen open.
select_upgrade_StaysOpen(w, index) ==
    IF 0 <= index /\ index < 3
    THEN [w EXCEPT !.player = CASE index = 0 -> Player_upgrade_speed(@)
                                [] index = 1 -> Player_upgrade_damage(@)
                                [] index = 2 -> Player_upgrade_ammo_capacity(@)]
    ELSE w

\* Game.select_upgrade: available_upgrades is always the three cards of
\* generate_upgrades, in the order speed, damage, capacity.
select_upgrade(w, index) ==
    IF 0 <= index /\ index < 3
    THEN [w EXCEPT !.player = CASE index = 0 -> Player_upgrade_speed(@)
                                [] index = 1 -> Player_upgrade_damage(@)
                                [] index = 2 -> Player_upgrade_ammo_capacity(@),
                   !.g = [@ EXCEPT !.showing_upgrades = FALSE,
                                   !.upgrade_rects = FALSE]]
    ELSE w

\* draw_upgrades: the rectangle of card i (0, 1, 2).
upgrade_rect(i) == Rect(200, 250 + 120 * i - 20, SCREEN_W - 400, 80)

\* rect.collidepoint
collidepoint(r, pos) ==
    /\ r.left <= pos[1] /\ pos[1] < r.left + r.w
    /\ r.top <= pos[2] /\ pos[2] < r.top + r.h

\* Game.check_upgrade_click: the first card under the mouse is selected.
check_upgrade_click(w, mouse_pos) ==
    LET hit == {i \in 0..2 : collidepoint(upgrade_rect(i), mouse_pos)}
    IN  IF w.g.upgrade_rects /\ hit # {}
        THEN select_upgrade(w, CHOOSE i \in hit : \A j \in hit : i <= j)
        ELSE w

\* Game.shoot_bullets
shoot_bullets(w, current_time) ==
    LET s == Player_shoot(w.player, current_time)
    IN  [w EXCEPT !.player = s.player,
                  !.bullets = IF s.bullet.kind # "none"
                              THEN Append(@, s.bullet) ELSE @]

\* Game.draw: the only state it touches is the layout of the upgrade cards,
\* which draw_upgrades computes when it is missing or was cleared.
draw(w) ==
    IF ~w.g.in_menu /\ w.g.showing_upgrades
    THEN [w EXCEPT !.g = [@ EXCEPT !.upgrade_rects = TRUE]]
    ELSE w

\* handle_events, one KEYDOWN of K_ESCAPE
on_escape(w) ==
    IF w.g.in_menu THEN [w EXCEPT !.g = [@ EXCEPT !.running = FALSE]]
    ELSE IF w.g.showing_upgrades
    THEN [w EXCEPT !.g = [@ EXCEPT !.showing_upgrades = FALSE]]
    ELSE [w EXCEPT !.g = [@ EXCEPT !.in_menu = TRUE]]

\* handle_events, one KEYDOWN of K_r
on_key_r(w, current_time) ==
    IF w.g.game_over THEN restart_game(w)
    ELSE IF ~w.g.in_menu /\ ~w.g.showing_upgrades /\ ~w.g.paused
    THEN [w EXCEPT !.player = Player_start_reload(@, current_time)]
    ELSE w

\* handle_events, one KEYDOWN of K_p
on_key_p(w) ==
    IF ~w.g.in_menu /\ ~w.g.showing_upgrades /\ ~w.g.game_over
    THEN [w EXCEPT !.g = [@ EXCEPT !.paused = ~@]]
    ELSE w

\* handle_events, one KEYDOWN of K_SPACE
on_space(w) == IF w.g.in_menu THEN start_game(w) ELSE w

\* handle_events, one KEYDOWN of K_1, K_2 or K_3 (index 0, 1, 2)
on_digit(w, index) ==
    IF w.g.showing_upgrades THEN select_upgrade(w, index) ELSE w

\* handle_events, one MOUSEBUTTONDOWN, shooting whatever the game's state.
on_click_Ungated(w, mouse_pos, current_time) ==
    IF w.g.showing_upgrades THEN check_upgrade_click(w, mouse_pos)
    ELSE shoot_bullets(w, current_time)

\* handle_events, one MOUSEBUTTONDOWN of button 1
on_click(w, mouse_pos, current_time) ==
    IF w.g.showing_upgrades THEN check_upgrade_click(w, mouse_pos)
    ELSE IF ~w.g.in_menu /\ ~w.g.paused /\ ~w.g.game_over
    THEN shoot_bullets(w, current_time)
    ELSE w

\* handle_events, one MOUSEMOTION
on_motion(w, mouse_pos) ==
    IF ~w.g.in_menu /\ ~w.g.showing_upgrades /\ ~w.g.paused /\ ~w.g.game_over
    THEN [w EXCEPT !.player = rotate_to_mouse(@, mouse_pos)]
    ELSE w

---------------------------------------------------------------------------
(* The game: Game.run, one action per event kind and one per frame         *)

\* Bounds of the game-level exploration.
\* Player bullets in flight at a time.
MaxBullets == 1
\* The clock value of the mid-game states of Init.
CheckpointTime == 2400

\* Inputs of a frame: the keys held, the mouse position, the random values.
KeySets == {{}, {"d"}}
MousePoints == {<<940, 360>>, <<640, 250>>}
OffsChoices ==
    { << <<60, 0>>, <<-60, 0>>, <<0, 60>>, <<0, -60>>, <<120, 120>> >>,
      << <<-120, -120>>, <<0, 0>>, <<30, -90>>, <<-30, 90>>, <<90, 30>> >> }
\* Places the four spawn bands of spawn_enemy hold: top, right, bottom.
SpawnPoints == {<<100, 100>>, <<1200, 360>>, <<640, 650>>}
PowerUpPoints == {<<690, 360>>, <<300, 200>>}

\* The random values a frame can draw.  A value the frame cannot read (its
\* timer is not about to elapse) is fixed, since it has no effect.
RndChoices ==
    LET b == active_boss
        offs == IF b.kind \in {"summoner", "splitter"} /\ b.summon_timer <= MaxDt
                THEN OffsChoices
                ELSE {CHOOSE o \in OffsChoices : TRUE}
        spot == IF b.kind \in {"sniper", "splitter"} /\ b.tp_timer <= MaxDt
                THEN 1..Len(spots) ELSE {1}
        spawn == IF /\ game.enemies_remaining > 0
                    /\ game.spawn_timer + MaxDt >= ENEMY_SPAWN_RATE
                 THEN SpawnPoints ELSE {CHOOSE s \in SpawnPoints : TRUE}
        pu == game.power_up_spawn_timer + MaxDt >= power_up_spawn_rate
        pup == IF pu THEN PowerUpPoints ELSE {CHOOSE s \in PowerUpPoints : TRUE}
        put == IF pu THEN PowerTypes ELSE {"health"}
    IN  [offs : offs, spot : spot, spawn_pos : spawn, pu_pos : pup, pu_type : put]

\* Game.__init__: the state run() starts from, at the first clock.tick.
Constructed ==
    [ w |-> [ player |-> NewPlayer(SCREEN_W \div 2, SCREEN_H \div 2),
              bullets |-> <<>>, enemies |-> <<>>, power_ups |-> <<>>,
              boss |-> NoBoss, g |-> NewGame ],
      now |-> 1 ]

\* The scalar fields in the middle of boss wave n, every upgrade screen
\* before it having been dismissed with Escape.
MidWave(n) ==
    [NewGame EXCEPT !.in_menu = FALSE, !.current_wave = n,
                    !.power_up_spawn_timer = 100, !.upgrade_rects = TRUE]

\* Wave 3: the Charger, almost beaten, has just rammed the player.
ChargerFight ==
    [ w |-> [ player |-> [NewPlayer(SCREEN_W \div 2, SCREEN_H \div 2) EXCEPT
                             !.hp = 40, !.current_ammo = 12,
                             !.last_shot_time = CheckpointTime - 5],
              bullets |-> <<>>, enemies |-> <<>>, power_ups |-> <<>>,
              boss |-> [BossCharger(SCREEN_W \div 2 + 30, SCREEN_H \div 2) EXCEPT
                             !.hp = 25, !.charge_cd_left = 30],
              g |-> MidWave(3) ],
      now |-> CheckpointTime ]

\* Wave 6: the Summoner, almost beaten, above the player; one minion fading,
\* one closing in; a power-up about to spawn.
SummonerFight ==
    [ w |-> [ player |-> [rotate_to_mouse(
                              NewPlayer(SCREEN_W \div 2, SCREEN_H \div 2),
                              <<640, 250>>) EXCEPT
                             !.hp = 95, !.armor = 1, !.current_ammo = 12,
                             !.last_shot_time = CheckpointTime - 5],
              bullets |-> <<>>,
              enemies |-> << [NewEnemy(760, 300, 6) EXCEPT
                                 !.hp = 0, !.is_dead_flag = TRUE,
                                 !.death_timer = 12],
                             [NewEnemy(680, 360, 6) EXCEPT !.hp = 55,
                                 !.last_attack = CheckpointTime - 18] >>,
              power_ups |-> <<>>,
              boss |-> [BossSummoner(SCREEN_W \div 2, 290) EXCEPT
                             !.hp = 25, !.summon_timer = 30],
              g |-> [MidWave(6) EXCEPT !.power_up_spawn_timer = 158] ],
      now |-> CheckpointTime ]

\* The game is in state c.w at clock value c.now.
Start(c) ==
        /\ now = c.now
        /\ dt = 1
        /\ player = c.w.player
        /\ bullets = c.w.bullets
        /\ enemies = c.w.enemies
        /\ power_ups = c.w.power_ups
        /\ active_boss = c.w.boss
        /\ game = c.w.g
        /\ ev = NoEvent

\* The game's state becomes w.
Apply(w) ==
    /\ player' = w.player
    /\ bullets' = w.bullets
    /\ enemies' = w.enemies
    /\ power_ups' = w.power_ups
    /\ active_boss' = w.boss
    /\ game' = w.g

\* Clock values are explored up to MaxTime past the start of the run.
Horizon == IF now < CheckpointTime THEN MaxTime ELSE CheckpointTime + MaxTime

\* One iteration of Game.run after its events: update(dt), draw(), and the
\* clock.tick(FPS) that opens the next iteration.
Frame ==
    /\ game.running
    /\ \E keys \in KeySets, mouse \in MousePoints, d \in DtSet, rnd \in RndChoices :
          /\ now + d <= Horizon
          /\ Apply(draw(Game_update(World, dt, now, keys, mouse, rnd)))
          /\ dt' = d
          /\ now' = now + d
    /\ UNCHANGED ev

\* pygame.QUIT
Quit ==
    /\ game.running
    /\ game' = [game EXCEPT !.running = FALSE]
    /\ UNCHANGED <<now, dt, player, bullets, enemies, power_ups, active_boss, ev>>

KeyEscape ==
    /\ game.running
    /\ Apply(on_escape(World))
    /\ UNCHANGED <<now, dt, ev>>

KeyR ==
    /\ game.running
    /\ Apply(on_key_r(World, now))
    /\ UNCHANGED <<now, dt, ev>>

KeyP ==
    /\ game.running
    /\ Apply(on_key_p(World))
    /\ UNCHANGED <<now, dt, ev>>

KeySpace ==
    /\ game.running
    /\ Apply(on_space(World))
    /\ UNCHANGED <<now, dt, ev>>

KeyDigit ==
    /\ game.running
    /\ \E index \in 0..2 : Apply(on_digit(World, index))
    /\ UNCHANGED <<now, dt, ev>>

MouseDown ==
    /\ game.running
    /\ IF game.showing_upgrades THEN TRUE ELSE Len(bullets) < MaxBullets
    /\ \E pos \in MousePoints : Apply(on_click(World, pos, now))
    /\ UNCHANGED <<now, dt, ev>>

MouseMotion ==
    /\ game.running
    /\ \E pos \in MousePoints : Apply(on_motion(World, pos))
    /\ UNCHANGED <<now, dt, ev>>

\* A run of the program from its start: the menu, the first seconds of
\* wave 1, pause and quit.
Init == Start(Constructed)

Next ==
    \/ Frame
    \/ Quit
    \/ KeyEscape
    \/ KeyR
    \/ KeyP
    \/ KeySpace
    \/ MouseDown
    \/ MouseMotion

Spec == Init /\ [][Next]_vars

\* The last seconds of a boss fight: frames, shots, and the upgrade choice
\* once the boss is beaten.
InitFight == \E c \in {ChargerFight, SummonerFight} : Start(c)

NextFight ==
    \/ Frame
    \/ MouseDown
    \/ KeyDigit

SpecBossFight == InitFight /\ [][NextFight]_vars

---------------------------------------------------------------------------
(* The player on its own: its methods called one at a time                 *)

\* Bounds of the calls: armor and maximum health that pickups may reach.
MaxArmor == 4
MaxHealth == 150

\* Bound of the calls: the magazine capacity that upgrades may reach.
MaxAmmo == 40

\* Damage amounts passed to Player.take_damage: the smallest amount, a
\* split bullet, boss overlap, an enemy's attack, a charge.
DamageSet == {1, 12, BOSS_CONTACT_DAMAGE, ENEMY_DAMAGE, contact_damage}

\* The game right after start_game, at the first frame.
Started == [w |-> start_game(Constructed.w), now |-> 1]

\* One round left in the magazine, the last shot just fired.
LastRound ==
    [ w |-> [Started.w EXCEPT !.player.current_ammo = 1,
                              !.player.last_shot_time = CheckpointTime - 1],
      now |-> CheckpointTime ]

\* An empty magazine, the reload begun reload_time - 3 ago.
Reloading ==
    [ w |-> [Started.w EXCEPT !.player.current_ammo = 0,
                              !.player.last_shot_time = CheckpointTime - 50,
                              !.player.is_reloading = TRUE,
                              !.player.reload_start =
                                  CheckpointTime - reload_time + 3],
      now |-> CheckpointTime ]

\* player.take_damage(d)
CallTakeDamage ==
    /\ \E d \in DamageSet :
          /\ player' = Player_take_damage(player, d)
          /\ ev' = Event("take_damage", 0, d, NoAngle, player, FALSE)
    /\ UNCHANGED <<now, dt, bullets, enemies, power_ups, active_boss, game>>

\* Game.apply_power_up(power_type), as on a pickup
CallApplyPowerUp ==
    /\ \E t \in PowerTypes :
          /\ IF t = "armor" THEN player.armor + 3 <= MaxArmor ELSE TRUE
          /\ IF t = "health" THEN player.max_hp + 25 <= MaxHealth ELSE TRUE
          /\ player' = apply_power_up(player, t)
          /\ ev' = Event("apply_power_up", 0, 0, NoAngle, player, FALSE)
    /\ UNCHANGED <<now, dt, bullets, enemies, power_ups, active_boss, game>>

InitHealth == Start(Started)

NextHealth ==
    \/ CallTakeDamage
    \/ CallApplyPowerUp

SpecPlayerHealth == InitHealth /\ [][NextHealth]_vars

\* The clock advances between calls.
Tick ==
    /\ \E d \in DtSet :
          /\ now + d <= Horizon
          /\ now' = now + d
    /\ ev' = Event("tick", 0, 0, NoAngle, player, FALSE)
    /\ UNCHANGED <<dt, player, bullets, enemies, power_ups, active_boss, game>>

\* player.shoot(now): ret tells whether a bullet was returned.
CallShoot ==
    /\ player' = Player_shoot(player, now).player
    /\ ev' = Event("shoot", 0, now, NoAngle, player,
                   Player_shoot(player, now).bullet.kind # "none")
    /\ UNCHANGED <<now, dt, bullets, enemies, power_ups, active_boss, game>>

\* player.start_reload(now)
CallStartReload ==
    /\ player' = Player_start_reload(player, now)
    /\ ev' = Event("start_reload", 0, now, NoAngle, player, FALSE)
    /\ UNCHANGED <<now, dt, bullets, enemies, power_ups, active_boss, game>>

\* player.update_reload(now)
CallUpdateReload ==
    /\ player' = Player_update_reload(player, now)
    /\ ev' = Event("update_reload", 0, now, NoAngle, player, FALSE)
    /\ UNCHANGED <<now, dt, bullets, enemies, power_ups, active_boss, game>>

\* player.upgrade_ammo_capacity()
CallUpgradeAmmo ==
    /\ player.max_ammo + 5 <= MaxAmmo
    /\ player' = Player_upgrade_ammo_capacity(player)
    /\ ev' = Event("upgrade_ammo_capacity", 0, now, NoAngle, player, FALSE)
    /\ UNCHANGED <<now, dt, bullets, enemies, power_ups, active_boss, game>>

InitWeapon == \E c \in {Started, LastRound, Reloading} : Start(c)

NextWeapon ==
    \/ Tick
    \/ CallShoot
    \/ CallStartReload
    \/ CallUpdateReload
    \/ CallUpgradeAmmo

SpecPlayerWeapon == InitWeapon /\ [][NextWeapon]_vars

---------------------------------------------------------------------------
(* The wave director: the end of a wave, the upgrade screen, the next wave *)

\* Wave 2 was found clear 37 ticks ago and the upgrade screen is still
\* open.
WaveCleared ==
    [ w |-> [ player |-> NewPlayer(SCREEN_W \div 2, SCREEN_H \div 2),
              bullets |-> <<>>, enemies |-> <<>>, power_ups |-> <<>>,
              boss |-> NoBoss,
              g |-> [MidWave(2) EXCEPT !.showing_upgrades = TRUE,
                                       !.wave_clear_time = CheckpointTime - 37] ],
      now |-> CheckpointTime ]

\* Wave 4: every enemy was spawned, the last one is fading out.
LastEnemyFading ==
    [ w |-> [ player |-> NewPlayer(SCREEN_W \div 2, SCREEN_H \div 2),
              bullets |-> <<>>,
              enemies |-> << [NewEnemy(900, 500, 4) EXCEPT
                                 !.hp = 0, !.is_dead_flag = TRUE,
                                 !.death_timer = fade_duration - 2] >>,
              power_ups |-> <<>>,
              boss |-> NoBoss,
              g |-> MidWave(4) ],
      now |-> CheckpointTime ]

\* Wave 15: the final boss, vulnerable, one hit from defeat, and the
\* player's bullet on its way to it.
FinalBlow ==
    [ w |-> [ player |-> [rotate_to_mouse(
                              NewPlayer(SCREEN_W \div 2, SCREEN_H \div 2),
                              <<640, 250>>) EXCEPT
                             !.current_ammo = 12,
                             !.last_shot_time = CheckpointTime - 2],
              bullets |-> << [Bullet(640, 360, -90, BULLET_DAMAGE, BULLET_SPEED,
                                     BULLET_RANGE, BULLET_SIZE)
                                 EXCEPT !.y = 280, !.life = 4] >>,
              enemies |-> <<>>, power_ups |-> <<>>,
              boss |-> [BossSplitter(SCREEN_W \div 2, 210) EXCEPT
                             !.hp = 25, !.shield_timer = 30,
                             !.charge_cd_left = 40, !.summon_timer = 50,
                             !.tp_timer = 45, !.shoot_timer = 20],
              g |-> MidWave(15) ],
      now |-> CheckpointTime ]

\* One iteration of Game.run, as Frame, with no key held and the mouse
\* resting above the player.
QuietFrame ==
    /\ game.running
    /\ \E d \in DtSet, rnd \in RndChoices :
          /\ now + d <= Horizon
          /\ Apply(draw(Game_update(World, dt, now, {}, <<640, 250>>, rnd)))
          /\ dt' = d
          /\ now' = now + d
    /\ UNCHANGED ev

InitWaves ==
    \E c \in {WaveCleared, LastEnemyFading, ChargerFight, SummonerFight,
              FinalBlow} : Start(c)

NextWaves ==
    \/ QuietFrame
    \/ MouseDown
    \/ KeyDigit
    \/ KeyEscape
    \/ KeyR
    \/ KeyP
    \/ KeySpace

SpecWaves == InitWaves /\ [][NextWaves]_vars

---------------------------------------------------------------------------
(* Enemies and bosses on their own: take_damage and update called directly *)

\* Damage and angle of the bullets that hit: the base damage and the damage
\* after one upgrade; shots to the right.
ShotDamage == {BULLET_DAMAGE, BULLET_DAMAGE + 15}
ShotAngles == {0}

\* Wave 9: the Shielded boss, almost beaten, its vulnerable window closing.
ShieldedFight ==
    [ w |-> [ player |-> NewPlayer(SCREEN_W \div 2, SCREEN_H \div 2),
              bullets |-> <<>>, enemies |-> <<>>, power_ups |-> <<>>,
              boss |-> [BossShielded(SCREEN_W \div 2, 210) EXCEPT
                             !.hp = 40, !.shield_timer = 2],
              g |-> MidWave(9) ],
      now |-> CheckpointTime ]

\* Wave 15: the final boss, almost beaten, its invulnerable window closing;
\* two of its splitting bullets have flown 280 of their 300 pixels, one
\* below the player and one straight at the player, and a third 240.
SplitterFight ==
    [ w |-> [ player |-> NewPlayer(SCREEN_W \div 2, SCREEN_H \div 2),
              bullets |-> <<>>, enemies |-> <<>>, power_ups |-> <<>>,
              boss |-> [BossSplitter(SCREEN_W \div 2, 210) EXCEPT
                             !.hp = 40, !.invulnerable = TRUE,
                             !.shield_timer = 2, !.charge_cd_left = 40,
                             !.summon_timer = 50, !.tp_timer = 45,
                             !.shoot_timer = 3,
                             !.bullets =
                                 << [SplitterBullet(200, 500, 0, 400, 25, 16, 300)
                                        EXCEPT !.x = 480,
                                               !.distance_traveled = 280],
                                    [SplitterBullet(340, 360, 0, 400, 25, 16, 300)
                                        EXCEPT !.x = 620,
                                               !.distance_traveled = 280],
                                    [SplitterBullet(160, 500, 0, 400, 25, 16, 300)
                                        EXCEPT !.x = 400,
                                               !.distance_traveled = 240] >>],
              g |-> MidWave(15) ],
      now |-> CheckpointTime ]

\* The actors before a call.
Snapshot == [enemies |-> enemies, boss |-> active_boss, player |-> player]

\* enemies[i].take_damage(d, a): ret is what is_dead() returns after it.
HitEnemy ==
    /\ \E i \in 1..Len(enemies), d \in ShotDamage, a \in ShotAngles :
          /\ enemies' = [enemies EXCEPT ![i] = Enemy_take_damage(@, d, a)]
          /\ ev' = Event("take_damage", i, d, a, Snapshot,
                         Enemy_is_dead(Enemy_take_damage(enemies[i], d, a)))
    /\ UNCHANGED <<now, dt, player, bullets, power_ups, active_boss, game>>

\* active_boss.take_damage(d, a): ret is what is_dead() returns after it.
HitBoss ==
    /\ active_boss.kind # "none"
    /\ \E d \in ShotDamage, a \in ShotAngles :
          /\ active_boss' = Boss_take_damage(active_boss, d, a)
          /\ ev' = Event("take_damage", 0, d, a, Snapshot,
                         Boss_is_dead(Boss_take_damage(active_boss, d, a)))
    /\ UNCHANGED <<now, dt, player, bullets, enemies, power_ups, game>>

\* The enemies after enemy.update(d, player, walls) on each of them.
UpdatedEnemies(d) ==
    [i \in 1..Len(enemies) |-> Enemy_update(enemies[i], d, player)]

\* The actors after the calls.
ApplyActors(c) ==
    /\ active_boss' = c.boss
    /\ player' = c.player
    /\ enemies' = c.enemies

\* A frame's update calls: enemy.update(d, ...) on every enemy, then
\* active_boss.update(d, game).
UpdateActors ==
    /\ active_boss.kind # "none"
    /\ \E d \in DtSet, rnd \in RndChoices :
          /\ now + d <= Horizon
          /\ now' = now + d
          /\ dt' = d
          /\ ApplyActors(Boss_update([boss |-> active_boss, player |-> player,
                                      enemies |-> UpdatedEnemies(d),
                                      wave |-> game.current_wave], d, rnd))
          /\ ev' = Event("update", 0, d, NoAngle, Snapshot, FALSE)
    /\ UNCHANGED <<bullets, power_ups, game>>

InitActors ==
    \E c \in {ChargerFight, SummonerFight, ShieldedFight, SplitterFight} :
        Start(c)

NextActors ==
    \/ HitEnemy
    \/ HitBoss
    \/ UpdateActors

SpecActors == InitActors /\ [][NextActors]_vars

---------------------------------------------------------------------------
(* Boss bullets on their own: update called on a bullet near the arena's   *)
(* edge                                                                    *)

\* Where the bullets under test start and where they head: inside the
\* arena next to each wall, in its middle, and past the walls.
ProbeXs == {30, 640, 1250, 1300}
ProbeYs == {30, 360, 690, 740}
ProbeAngles == {0, 90, 180, -90, 45}

\* A child of a splitting bullet, and a splitting bullet as the final boss
\* fires it.
ProbeBullets ==
    {BossBullet(x, y, a, SPLIT_CHILD_SPEED, 12, SPLIT_CHILD_SIZE) :
        x \in ProbeXs, y \in ProbeYs, a \in ProbeAngles}
    \cup {SplitterBullet(x, y, a, 400, 25, 16, 300) :
             x \in ProbeXs, y \in ProbeYs, a \in ProbeAngles}

\* The bullet under test, alone in the final boss's list.
Probe == active_boss.bullets[1]

\* update was not yet called, or reported the bullet active.
StillActive == ev.op = "init" \/ ev.ret

\* BossBullet.update(d, walls) on the bullet: ret is what it returns.
UpdateBossBullet ==
    /\ StillActive
    /\ Probe.kind = "boss"
    /\ \E d \in DtSet :
          /\ active_boss' = [active_boss EXCEPT
                                !.bullets = <<BossBullet_update(Probe, d).bullet>>]
          /\ ev' = Event("BossBullet.update", 1, d, NoAngle, Probe,
                         BossBullet_update(Probe, d).alive)
    /\ UNCHANGED <<now, dt, player, bullets, enemies, power_ups, game>>

\* SplitterBullet.update(d, walls) on the bullet: ret is the bool of the
\* pair it returns.
UpdateSplitterBullet ==
    /\ StillActive
    /\ Probe.kind = "split"
    /\ \E d \in DtSet :
          /\ active_boss' = [active_boss EXCEPT
                                !.bullets = <<SplitterBullet_update(Probe, d).bullet>>]
          /\ ev' = Event("SplitterBullet.update", 1, d, NoAngle, Probe,
                         SplitterBullet_update(Probe, d).alive)
    /\ UNCHANGED <<now, dt, player, bullets, enemies, power_ups, game>>

InitBullets ==
    \E b \in ProbeBullets :
        Start([SplitterFight EXCEPT !.w.boss.bullets = <<b>>])

NextBullets ==
    \/ UpdateBossBullet
    \/ UpdateSplitterBullet

SpecBullets == InitBullets /\ [][NextBullets]_vars

---------------------------------------------------------------------------
(* Properties of the game (SpecBossFight)                                  *)

\* Game.update runs in this frame: no screen or flag suspends it.
Playing ==
    ~game.in_menu /\ ~game.paused /\ ~game.game_over /\ ~game.showing_upgrades

\* The step is a frame (only a frame moves the clock).
IsFrame == now' # now

\* C1: in every reachable state the health of the player, of every enemy
\* and of the active boss lies between 0 and its maximum, whatever damage,
\* power-up pickups and upgrades have occurred.
C1_HealthInRange ==
    /\ 0 <= player.hp /\ player.hp <= player.max_hp
    /\ \A i \in 1..Len(enemies) :
          0 <= enemies[i].hp /\ enemies[i].hp <= enemies[i].max_hp
    /\ active_boss.kind # "none" =>
          (0 <= active_boss.hp /\ active_boss.hp <= active_boss.max_hp)

\* C1, witness: the player was killed under the boss, its health stopped at 0.
C1_Witness ==
    /\ player.hp = 0
    /\ game.game_over
    /\ active_boss.kind = "charger"
    /\ ~active_boss.is_dead_flag

\* Every enemy in the list and the active boss are dead.
AllFoesDead ==
    /\ \A i \in 1..Len(enemies) : enemies[i].is_dead_flag
    /\ active_boss.kind # "none" => active_boss.is_dead_flag

\* C4: once an enemy or a boss is dead it never reduces the player's health
\* again: a frame that starts with nothing but dead enemies and a dead boss
\* in the world leaves the player's health at least what it was.
C4_DeadNeverHurts ==
    [][(IsFrame /\ AllFoesDead) => player'.hp >= player.hp]_vars

\* This frame's update ends by clearing the enemy list for a beaten boss
\* (every boss but the final one).
BossDown ==
    /\ active_boss.kind \notin {"none", "splitter"}
    /\ IF active_boss'.kind = "none" THEN TRUE ELSE active_boss'.is_dead_flag
    /\ enemies' = <<>>

\* Enemy i, which is fading and does not reach fade_duration in this frame,
\* is still in the list after it, its timer advanced by dt.
StaysFading(i) ==
    (enemies[i].is_dead_flag /\ enemies[i].death_timer + dt < fade_duration)
        => \E j \in 1..Len(enemies') :
               enemies'[j] = [enemies[i] EXCEPT !.death_timer = @ + dt]

\* No enemy that is ready to be removed is left in the list.
NoneRemovable ==
    \A i \in 1..Len(enemies) :
        ~(enemies[i].is_dead_flag /\ enemies[i].death_timer >= fade_duration)

\* C8 as stated: an enemy that has taken lethal damage stays in the enemy
\* list for every frame in which its accumulated dt is still below
\* fade_duration, and is removed in the frame in which it reaches it.
C8_FadeThenRemoved_Original ==
    [][(IsFrame /\ Playing) =>
          /\ \A i \in 1..Len(enemies) : StaysFading(i)
          /\ NoneRemovable']_vars

\* C8 amended: the same, except that the frame in which a boss other than
\* the final one is found dead clears the whole list, fading enemies
\* included.
C8_FadeThenRemoved ==
    [][(IsFrame /\ Playing) =>
          /\ ~BossDown => \A i \in 1..Len(enemies) : StaysFading(i)
          /\ NoneRemovable']_vars

\* C8, witness: the minion that was fading at the start of the fight has
\* been removed while its summoner is still alive, the other minion staying.
C8_Witness ==
    /\ game.current_wave = 6
    /\ ~active_boss.is_dead_flag
    /\ Len(enemies) = 1
    /\ ~enemies[1].is_dead_flag

---------------------------------------------------------------------------
(* Properties of the player (SpecPlayerHealth, SpecPlayerWeapon)           *)

\* C3: Player.take_damage(d) with armor > 0 takes max(1, floor(d/2)) from
\* the health and exactly 1 from the armor; with armor = 0 it takes d and
\* leaves the armor at 0; the armor is never negative.
C3_ArmorHalves ==
    /\ player.armor >= 0
    /\ ev.op = "take_damage" =>
          LET half == IF ev.arg \div 2 >= 1 THEN ev.arg \div 2 ELSE 1
          IN  IF ev.pre.armor > 0
              THEN /\ player.hp = Max(0, ev.pre.hp - half)
                   /\ player.armor = ev.pre.armor - 1
              ELSE /\ player.hp = Max(0, ev.pre.hp - ev.arg)
                   /\ player.armor = 0

\* C3, witness: a hit of 1 on an armored player cost 1 health and 1 armor.
C3_Witness ==
    /\ ev.op = "take_damage"
    /\ ev.arg = 1
    /\ ev.pre.armor > 0
    /\ player.hp = ev.pre.hp - 1
    /\ player.armor = ev.pre.armor - 1

\* Player.shoot(t) on player p is one of the three refused calls.
ShootRefused(p, t) ==
    \/ t - p.last_shot_time < FIRE_RATE
    \/ p.is_reloading
    \/ p.current_ammo <= 0

\* A refused call returned nothing and left ammo and last-shot time alone.
RefusedQuietly ==
    ShootRefused(ev.pre, ev.arg) =>
        /\ ~ev.ret
        /\ player.current_ammo = ev.pre.current_ammo
        /\ player.last_shot_time = ev.pre.last_shot_time

\* C6 as stated: Player.shoot called within the cooldown, while reloading
\* or with zero ammo returns no projectile and leaves ammo and last-shot
\* time unchanged, and every call made with zero ammo leaves the player
\* reloading.
C6_ShootRefusals_Original ==
    ev.op = "shoot" =>
        /\ RefusedQuietly
        /\ ev.pre.current_ammo = 0 => player.is_reloading

\* C6 amended: the same, except that a call made with zero ammo starts the
\* reload only when the fire-rate cooldown has elapsed; a call with zero
\* ammo within the cooldown changes nothing.
C6_ShootRefusals ==
    ev.op = "shoot" =>
        /\ RefusedQuietly
        /\ (ev.pre.current_ammo = 0
              /\ ev.arg - ev.pre.last_shot_time >= FIRE_RATE)
              => player.is_reloading
        /\ (ev.pre.current_ammo = 0
              /\ ev.arg - ev.pre.last_shot_time < FIRE_RATE)
              => player = ev.pre

\* C6, witness: a shot with an empty magazine started the reload.
C6_Witness ==
    /\ ev.op = "shoot"
    /\ ev.pre.current_ammo = 0
    /\ ~ev.pre.is_reloading
    /\ ~ev.ret
    /\ player.is_reloading
    /\ player.reload_start = ev.arg

\* C7: start_reload changes nothing when the player is already reloading or
\* the magazine is full; update_reload completes a reload (ammo = max_ammo,
\* not reloading) at the first call at which reload_time has elapsed since
\* it began and changes nothing before; nothing else ends a reload.
C7_ReloadTiming ==
    /\ (ev.op = "start_reload"
          /\ (ev.pre.is_reloading \/ ev.pre.current_ammo >= ev.pre.max_ammo))
          => player = ev.pre
    /\ (ev.op = "update_reload" /\ ev.pre.is_reloading) =>
          IF ev.arg - ev.pre.reload_start >= reload_time
          THEN player.current_ammo = player.max_ammo /\ ~player.is_reloading
          ELSE player = ev.pre
    /\ (ev.op # "init" /\ ev.pre.is_reloading /\ ~player.is_reloading) =>
          /\ ev.op = "update_reload"
          /\ ev.arg - ev.pre.reload_start >= reload_time

\* C7, witness: update_reload completed a reload exactly reload_time after
\* it began.
C7_Witness ==
    /\ ev.op = "update_reload"
    /\ ev.pre.is_reloading
    /\ ev.arg - ev.pre.reload_start = reload_time
    /\ ~player.is_reloading
    /\ player.current_ammo = player.max_ammo

---------------------------------------------------------------------------
(* Properties of enemies and bosses (SpecActors)                           *)

\* The enemy or boss the last take_damage call was made on, in snapshot s.
HitActor(s) == IF ev.who = 0 THEN s.boss ELSE s.enemies[ev.who]
Before == HitActor(ev.pre)
After == HitActor(Snapshot)

\* The damage that counts: none for a boss inside its invulnerable window.
EffectiveDamage ==
    IF ev.who = 0 /\ Before.invulnerable THEN 0 ELSE ev.arg

\* C2 as first stated: after take_damage(d) the health of an enemy or boss
\* is max(0, health before - effective damage), and is_dead() is true right
\* after the call exactly when that health is 0.
C2_DamageAndDeath_Original ==
    ev.op = "take_damage" =>
        /\ After.hp = Max(0, Before.hp - EffectiveDamage)
        /\ ev.ret <=> After.hp = 0

\* C2: after take_damage(d) the health of an enemy or boss is
\* max(0, health before - effective damage), and the dead flag is set right
\* after the call exactly when that health is 0; a boss's is_dead() returns
\* the flag, an enemy's is_dead() is true only when the flag is set and its
\* fade duration has elapsed as well.
C2_DamageAndDeath ==
    ev.op = "take_damage" =>
        /\ After.hp = Max(0, Before.hp - EffectiveDamage)
        /\ After.is_dead_flag <=> After.hp = 0
        /\ ev.ret <=> /\ After.hp = 0
                      /\ IF ev.who = 0 THEN TRUE
                         ELSE After.death_timer >= fade_duration

\* A hit has just killed an enemy, and is_dead() does not report it yet.
C2_Witness ==
    /\ ev.op = "take_damage"
    /\ ev.who > 0
    /\ ~Before.is_dead_flag
    /\ After.hp = 0
    /\ ~ev.ret

\* The dead actor a is, one step later, b: still dead, health 0, where it
\* was, with the knockback it had.
DeadIsFinal(a, b) ==
    a.is_dead_flag =>
        /\ b.is_dead_flag
        /\ b.hp = 0
        /\ b.x = a.x /\ b.y = a.y
        /\ b.knockback_x = a.knockback_x /\ b.knockback_y = a.knockback_y

\* C5: once the dead flag of an enemy or boss is set it is never cleared,
\* its health stays 0 under any further take_damage call, which applies no
\* knockback either, and no later update moves it.
C5_DeadIsFinal ==
    [][ /\ \A i \in 1..Len(enemies) : DeadIsFinal(enemies[i], enemies'[i])
        /\ DeadIsFinal(active_boss, active_boss') ]_vars

\* update has just run on a dead boss and on a dead enemy, whose fade went
\* on.
C5_Witness ==
    /\ ev.op = "update"
    /\ ev.pre.boss.is_dead_flag
    /\ \E i \in 1..Len(ev.pre.enemies) :
          /\ ev.pre.enemies[i].is_dead_flag
          /\ enemies[i].death_timer > ev.pre.enemies[i].death_timer

\* C9: take_damage on the Shielded boss or the final boss inside an
\* invulnerable window leaves health, knockback and dead flag as they were;
\* inside a vulnerable window it lowers the health by exactly the amount
\* passed, stopping at 0.
C9_ShieldWindows ==
    (/\ ev.op = "take_damage"
     /\ ev.who = 0
     /\ Before.kind \in {"shielded", "splitter"}) =>
        IF Before.invulnerable
        THEN /\ After.hp = Before.hp
             /\ After.knockback_x = Before.knockback_x
             /\ After.knockback_y = Before.knockback_y
             /\ After.is_dead_flag = Before.is_dead_flag
        ELSE After.hp = Max(0, Before.hp - ev.arg)

\* The Shielded boss, hurt by a hit in its vulnerable window, has just been
\* hit inside the invulnerable window that followed.
C9_Witness ==
    /\ ev.op = "take_damage"
    /\ ev.who = 0
    /\ Before.kind = "shielded"
    /\ Before.invulnerable
    /\ Before.hp > 0
    /\ Before.hp < 40


\* The final boss's bullets before its last update and after it.
BulletsBefore == ev.pre.boss.bullets
BulletsAfter == active_boss.bullets

\* Where the update moved bullet b to.
MovedX(b) == Advance(b.x, b.vx, ev.arg)
MovedY(b) == Advance(b.y, b.vy, ev.arg)

\* The splitting projectile b reached split_distance from its spawn point in
\* the update, hitting no wall, staying in bounds and missing the player.
SplitsNow(b) ==
    /\ b.kind = "split"
    /\ ~b.has_split
    /\ Hypot(MovedX(b) - b.start_x, MovedY(b) - b.start_y) >= b.split_distance
    /\ ~HitsWall(RectAt(MovedX(b), MovedY(b), b.size))
    /\ ~OutOfBounds(MovedX(b), MovedY(b))
    /\ ~colliderect(RectAt(MovedX(b), MovedY(b), b.size),
                    PlayerRect(ev.pre.player))

\* c is a plain boss bullet at the point where b split.
ChildOf(c, b) == c.kind = "boss" /\ c.x = MovedX(b) /\ c.y = MovedY(b)

\* c flies at the angle of b turned by off degrees.
TurnedBy(c, b, off) ==
    /\ c.vx = Cos1000(b.angle + off) * SPLIT_CHILD_SPEED
    /\ c.vy = Sin1000(b.angle + off) * SPLIT_CHILD_SPEED

\* The indices of the plain boss bullets in the list bs.
PlainBullets(bs) == {j \in 1..Len(bs) : bs[j].kind = "boss"}

SplittingBullets(bs) == {j \in 1..Len(bs) : bs[j].kind = "split"}

\* What SplitterBullet.update makes of b in a tick of d, and of the bullet
\* that call leaves in a second call.
FirstUpdate(b, d) == SplitterBullet_update(b, d)
SecondUpdate(b, d) == SplitterBullet_update(FirstUpdate(b, d).bullet, d)

\* C11: a splitting projectile produces children at most once (the update
\* that produces them marks it split and inactive, and an update of a split
\* projectile produces nothing), and no projectile left in the final boss's
\* list has its has_split flag set: none is both alive and split.
C11_SplitOnce ==
    /\ active_boss.kind = "splitter" =>
          \A j \in SplittingBullets(active_boss.bullets) :
              /\ ~active_boss.bullets[j].has_split
              /\ \A d \in DtSet :
                    /\ FirstUpdate(active_boss.bullets[j], d).alive
                          => ~FirstUpdate(active_boss.bullets[j], d).bullet.has_split
                    /\ FirstUpdate(active_boss.bullets[j], d).split_bullets # <<>>
                          => /\ FirstUpdate(active_boss.bullets[j], d).bullet.has_split
                             /\ ~SecondUpdate(active_boss.bullets[j], d).alive
                             /\ SecondUpdate(active_boss.bullets[j], d).split_bullets
                                   = <<>>

\* The final boss's update has just run with a projectile dividing in it:
\* the parent is gone from the list and its children are in it.
C11_Witness ==
    /\ ev.op = "update"
    /\ ev.pre.boss.kind = "splitter"
    /\ Cardinality(SplittingBullets(BulletsAfter))
          < Cardinality(SplittingBullets(BulletsBefore))
    /\ Cardinality(PlainBullets(BulletsAfter))
          >= Cardinality(PlainBullets(BulletsBefore)) + 5


\* Bullet b of the final boss overlaps the player where the update moved it.
HitsPlayerNow(b) ==
    colliderect(RectAt(MovedX(b), MovedY(b), b.size), PlayerRect(ev.pre.player))

\* The splitting projectiles that overlapped the player in the last update.
HittingBullets ==
    {k \in SplittingBullets(BulletsBefore) : HitsPlayerNow(BulletsBefore[k])}

RECURSIVE DamageOf(_)
\* The damage of the projectiles of BulletsBefore with index in S, summed.
DamageOf(S) ==
    IF S = {} THEN 0
    ELSE LET k == CHOOSE j \in S : TRUE
         IN  BulletsBefore[k].damage + DamageOf(S \ {k})

\* Nothing else hurt the player in the last update: the boss was not
\* charging, no plain boss bullet reached the player, no armor was worn.
OnlySplittersHit ==
    /\ ev.pre.boss.state # "charging"
    /\ active_boss.state # "charging"
    /\ ev.pre.player.armor = 0
    /\ \A k \in PlainBullets(BulletsBefore) : ~HitsPlayerNow(BulletsBefore[k])

\* C12: in a tick where a splitting projectile overlaps the player, the
\* player takes the projectile's damage once, the projectile is removed and
\* none of its children appear, also when it reached its split distance in
\* that tick.
C12_HitInsteadOfSplit ==
    (/\ ev.op = "update"
     /\ ev.pre.boss.kind = "splitter"
     /\ ~ev.pre.boss.is_dead_flag) =>
        /\ \A k \in HittingBullets :
              \A j \in 1..Len(BulletsAfter) :
                 /\ ~ChildOf(BulletsAfter[j], BulletsBefore[k])
                 /\ ~(/\ BulletsAfter[j].kind = "split"
                      /\ BulletsAfter[j].x = MovedX(BulletsBefore[k])
                      /\ BulletsAfter[j].y = MovedY(BulletsBefore[k]))
        /\ OnlySplittersHit =>
              player.hp = Max(0, ev.pre.player.hp - DamageOf(HittingBullets))

\* A splitting projectile has just overlapped the player in the tick in
\* which it reached its split distance, and the player paid for it.
C12_Witness ==
    /\ ev.op = "update"
    /\ ev.pre.boss.kind = "splitter"
    /\ ~ev.pre.boss.is_dead_flag
    /\ OnlySplittersHit
    /\ \E k \in HittingBullets :
          /\ Hypot(MovedX(BulletsBefore[k]) - BulletsBefore[k].start_x,
                   MovedY(BulletsBefore[k]) - BulletsBefore[k].start_y)
                >= BulletsBefore[k].split_distance
          /\ player.hp = ev.pre.player.hp - BulletsBefore[k].damage


---------------------------------------------------------------------------
(* Properties of the boss bullets (SpecBullets)                            *)

\* The bullet is, after its update, past the arena by more than 50 pixels.
PastTheMargin ==
    \/ Probe.x < -50
    \/ Probe.x > SCREEN_W + 50
    \/ Probe.y < -50
    \/ Probe.y > SCREEN_H + 50

\* The bullet's rectangle is, after its update, on a wall.
OnAWall == \E i \in 1..Len(walls) : colliderect(BulletRect(Probe), walls[i])

\* C13: a boss bullet or splitting bullet that its update leaves at
\* x < -50, x > width + 50, y < -50 or y > height + 50 is reported inactive;
\* one whose rectangle meets a wall is reported inactive wherever it is;
\* any other boss bullet is reported active.
C13_BoundsAndWalls ==
    ev.op \in {"BossBullet.update", "SplitterBullet.update"} =>
        /\ PastTheMargin => ~ev.ret
        /\ OnAWall => ~ev.ret
        /\ (ev.op = "BossBullet.update" /\ ~PastTheMargin /\ ~OnAWall)
              => ev.ret

\* A boss bullet that flew over a wall between two updates was reported
\* active beyond it, outside the arena and inside the margin.
C13_Witness ==
    /\ ev.op = "BossBullet.update"
    /\ ev.ret
    /\ Probe.x > SCREEN_W
    /\ ev.pre.x < SCREEN_W - 20


---------------------------------------------------------------------------
(* Properties of the wave director (SpecWaves)                             *)

\* C14: the wave number changes only by +1, in a tick that ends a wave
\* found clear (no enemy and no boss is left by it), or by a reset to 1
\* when a game is started from the menu or restarted after game over; it
\* never goes down otherwise and never skips a value.
C14_WaveSteps ==
    [][ game'.current_wave # game.current_wave =>
           IF IsFrame
           THEN /\ game'.current_wave = game.current_wave + 1
                /\ game.wave_clear_time # 0
                /\ enemies' = <<>>
                /\ active_boss'.kind = "none"
           ELSE /\ game'.current_wave = 1
                /\ game.in_menu \/ game.game_over ]_vars

\* Wave 2, found clear before the run began, has given way to wave 3.
C14_Witness ==
    /\ now > CheckpointTime
    /\ game.current_wave = 3
    /\ game.wave_clear_time = 0
    /\ active_boss.kind = "none"
    /\ ~game.in_menu


\* The upgrade screen opens in this step.
GateOpens == ~game.showing_upgrades /\ game'.showing_upgrades

\* The next wave starts in this step.
WaveAdvances == game'.current_wave = game.current_wave + 1

\* The wave is clear after this step: its quota is spent and no enemy is
\* left, or its boss, not the final one, is dead.
ClearAfter ==
    /\ enemies' = <<>>
    /\ game'.enemies_remaining = 0
    /\ IF active_boss'.kind = "none" THEN boss_waves(game.current_wave) = "none"
       ELSE active_boss'.is_dead_flag /\ active_boss'.kind # "splitter"

\* C15: for every cleared wave N the upgrade screen opens exactly once (it
\* opens only in the tick that stamps the clear of a wave that is clear, the
\* stamp is made only with the screen opening, and it lasts until the wave
\* number changes), and the wave becomes N + 1 only with the screen closed
\* and wave_clear_delay or more elapsed since the stamp.
C15_GateThenWave ==
    [][ /\ GateOpens =>
              /\ IsFrame
              /\ game.wave_clear_time = 0
              /\ game'.wave_clear_time = now
              /\ game'.current_wave = game.current_wave
              /\ ClearAfter
        /\ (game.wave_clear_time = 0 /\ game'.wave_clear_time # 0) => GateOpens
        /\ (game.wave_clear_time # 0 /\ game'.current_wave = game.current_wave)
              => game'.wave_clear_time = game.wave_clear_time
        /\ WaveAdvances =>
              /\ IsFrame
              /\ ~game.showing_upgrades
              /\ game.wave_clear_time # 0
              /\ now - game.wave_clear_time >= wave_clear_delay ]_vars

\* Wave 3 has begun after the player picked one of the three upgrades
\* offered for wave 2.
C15_Witness ==
    /\ game.current_wave = 3
    /\ game.wave_clear_time = 0
    /\ ~game.showing_upgrades
    /\ now >= CheckpointTime + 3
    /\ player.speed_level + player.damage_level > 0

\* C16 as first stated: once a wave is found clear the upgrade screen does
\* not open before wave_clear_delay has elapsed.
C16_DelayBeforeGate_Original ==
    [][ GateOpens =>
           /\ game.wave_clear_time # 0
           /\ now - game.wave_clear_time >= wave_clear_delay ]_vars

\* C16: the upgrade screen opens in the very tick that finds the wave
\* clear; wave_clear_delay, counted from that tick, holds back the start of
\* the next wave, not the screen.
C16_DelayBeforeGate ==
    [][ /\ (IsFrame /\ game.wave_clear_time = 0 /\ game'.wave_clear_time # 0)
              => /\ GateOpens
                 /\ game'.wave_clear_time = now
        /\ (/\ game.wave_clear_time # 0
            /\ now - game.wave_clear_time < wave_clear_delay)
              => ~WaveAdvances ]_vars

\* The last enemy of wave 4 has faded out during the run: the clear is
\* stamped and the upgrade screen is open, no delay having passed.
C16_Witness ==
    /\ game.current_wave = 4
    /\ game.showing_upgrades
    /\ game.wave_clear_time > CheckpointTime
    /\ now - game.wave_clear_time < wave_clear_delay


\* Game.update returns at once: menu, pause, game over or upgrade screen.
Suspended ==
    game.in_menu \/ game.paused \/ game.game_over \/ game.showing_upgrades

\* What a suspended tick must leave alone.
WorldFrozen ==
    /\ UNCHANGED <<enemies, active_boss, bullets, power_ups>>
    /\ player'.x = player.x /\ player'.y = player.y
    /\ player'.current_ammo = player.current_ammo
    /\ player'.max_ammo = player.max_ammo
    /\ game'.current_wave = game.current_wave
    /\ game'.enemies_remaining = game.enemies_remaining
    /\ game'.spawn_timer = game.spawn_timer
    /\ game'.power_up_spawn_timer = game.power_up_spawn_timer

\* Nothing of the game changes in this step.
NoEffect == UNCHANGED <<player, bullets, enemies, power_ups, active_boss, game>>

\* This step fires no bullet, spends no round and starts no reload.
NoShotNoReload ==
    /\ Len(bullets') <= Len(bullets)
    /\ player'.current_ammo >= player.current_ammo
    /\ player'.is_reloading => player.is_reloading

\* C17 as first stated: while the game is suspended a tick leaves enemies,
\* boss, projectiles, power-ups, the player's position and ammo, the wave
\* number and the spawn counters unchanged, and a click or a press of R has
\* no effect.
C17_Suspended_Original ==
    [][ Suspended =>
           /\ IsFrame => WorldFrozen
           /\ (MouseDown \/ KeyR) => NoEffect ]_vars

\* C17: while the game is suspended a tick leaves enemies, boss,
\* projectiles, power-ups, the player's position and ammo, the wave number
\* and the spawn counters unchanged; a click or a press of R fires no
\* bullet, spends no round and starts no reload, and has no effect at all
\* except for a click while the upgrade screen is open, which can pick an
\* upgrade, and R during game over, which restarts the game.
C17_Suspended ==
    [][ Suspended =>
           /\ IsFrame => WorldFrozen
           /\ (MouseDown \/ KeyR) => NoShotNoReload
           /\ (MouseDown /\ ~game.showing_upgrades) => NoEffect
           /\ (KeyR /\ ~game.game_over) => NoEffect ]_vars

\* Ticks have passed with the upgrade screen open since the run began.
C17_Witness ==
    /\ game.showing_upgrades
    /\ ~game.in_menu
    /\ game.current_wave = 2
    /\ game.wave_clear_time = CheckpointTime - 37
    /\ now >= CheckpointTime + 2


\* A boss comes into being in this step.
BossCreated ==
    \/ active_boss.kind = "none" /\ active_boss'.kind # "none"
    \/ /\ active_boss.kind # "none"
       /\ active_boss'.kind # "none"
       /\ active_boss.is_dead_flag
       /\ ~active_boss'.is_dead_flag

\* C18: on a boss wave a boss is created only in a tick that leaves the
\* enemy list empty and began with no boss, and at most one boss is created
\* per boss wave: the boss, alive or dead, stays the wave's boss until the
\* wave number changes.
C18_OneBossPerWave ==
    [][ /\ BossCreated =>
              /\ IsFrame
              /\ active_boss.kind = "none"
              /\ enemies' = <<>>
              /\ game'.current_wave = game.current_wave
              /\ active_boss' = NewBoss(boss_waves(game.current_wave),
                                        SCREEN_W \div 2,
                                        SCREEN_H \div 2 - BOSS_SPAWN_DY)
        /\ (active_boss.kind # "none"
            /\ game'.current_wave = game.current_wave)
              => /\ active_boss'.kind = active_boss.kind
                 /\ active_boss.is_dead_flag => active_boss'.is_dead_flag ]_vars

\* Wave 3 has begun during the run and its boss, the Charger, has been
\* created.
C18_Witness ==
    /\ now > CheckpointTime
    /\ game.current_wave = 3
    /\ active_boss.kind = "charger"
    /\ active_boss.max_hp = active_boss.hp
    /\ enemies = <<>>


\* The wave's boss, not the final one, is dead.
BossBeaten ==
    /\ active_boss.kind \notin {"none", "splitter"}
    /\ active_boss.is_dead_flag

\* C19: from the end of the tick in which the wave director finds a boss
\* other than the final one dead, the enemy list is empty, minions
\* included, and it stays empty until the next wave starts (the dead boss
\* is the wave's boss until then).
C19_BossDefeatClears ==
    BossBeaten => /\ enemies = <<>>
                  /\ game.wave_clear_time # 0
                  /\ game.enemies_remaining = 0

\* The Summoner is dead, its minions are gone, the upgrade screen has been
\* closed and ticks have passed since.
C19_Witness ==
    /\ BossBeaten
    /\ active_boss.kind = "summoner"
    /\ enemies = <<>>
    /\ ~game.showing_upgrades
    /\ ~game.in_menu /\ ~game.paused /\ ~game.game_over
    /\ now >= game.wave_clear_time + 3


\* The last wave: the one of the final boss.
LastWave == 15

\* C20: when the wave director finds the final boss dead the game is over
\* in that same tick, the upgrade screen is not opened, no clear is stamped
\* and the wave stays the last one; the wave number never exceeds 15.
C20_FinalBossEnds ==
    /\ (active_boss.kind = "splitter" /\ active_boss.is_dead_flag) =>
          /\ game.game_over
          /\ ~game.showing_upgrades
          /\ game.wave_clear_time = 0
          /\ game.current_wave = LastWave
    /\ game.current_wave <= LastWave

\* The player's bullet has killed the final boss and the game is over, the
\* player alive.
C20_Witness ==
    /\ active_boss.kind = "splitter"
    /\ active_boss.is_dead_flag
    /\ game.game_over
    /\ player.hp > 0
    /\ bullets = <<>>


\* ---------------------------------------------------------------------
\* Game over
\* ---------------------------------------------------------------------

\* The player is out of health, or the final boss is in play and dead.
Lost == player.hp = 0 \/ (active_boss.kind = "splitter" /\ Boss_is_dead(active_boss))

\* The state restart_game leaves.
Fresh ==
    /\ player = NewPlayer(SCREEN_W \div 2, SCREEN_H \div 2)
    /\ bullets = <<>> /\ enemies = <<>> /\ power_ups = <<>>
    /\ active_boss = NoBoss
    /\ game.current_wave = 1 /\ game.enemies_remaining = 3
    /\ game.spawn_timer = 0 /\ game.power_up_spawn_timer = 0
    /\ ~game.game_over /\ ~game.paused /\ ~game.showing_upgrades
    /\ ~game.in_menu

\* C21: after every step the game is over exactly when the player's health
\* is 0 or the active boss is the dead final boss; a tick of a game that is
\* over changes no entity, and R then resets the whole state.
C21_GameOver ==
    [][ /\ (game.game_over <=> Lost)'
        /\ (game.game_over /\ IsFrame) =>
               UNCHANGED <<player, bullets, enemies, power_ups, active_boss>>
        /\ (game.game_over /\ KeyR) => Fresh' ]_vars

\* The Charger has worn the player down and frames of the finished game
\* have run since.
C21_Witness ==
    /\ game.game_over /\ player.hp = 0 /\ active_boss.kind = "charger"
    /\ now = CheckpointTime + MaxTime


\* ---------------------------------------------------------------------
\* Bullets against enemies and the boss
\* ---------------------------------------------------------------------

\* The player's bullet at (x, y), flying up.
ShotAt(x, y) ==
    [Bullet(x, y + 60, -90, BULLET_DAMAGE, BULLET_SPEED, BULLET_RANGE, BULLET_SIZE)
        EXCEPT !.y = y, !.life = 3]

\* Wave 3: the Charger above the player with an enemy in front of it, inside
\* its rectangle; the bullets listed are one tick short of them.
Crossfire(shots, foe) ==
    [ w |-> [ player |-> [rotate_to_mouse(
                              NewPlayer(SCREEN_W \div 2, SCREEN_H \div 2),
                              <<640, 250>>) EXCEPT
                             !.current_ammo = 12,
                             !.last_shot_time = CheckpointTime - 5],
              bullets |-> shots,
              enemies |-> <<foe>>,
              power_ups |-> <<>>,
              boss |-> [BossCharger(SCREEN_W \div 2, 210) EXCEPT
                             !.hp = 2000, !.charge_cd_left = 50],
              g |-> MidWave(3) ],
      now |-> CheckpointTime ]

\* The enemy in front of the boss, alive with health hp.
Foe(hp) == [NewEnemy(640, 240, 3) EXCEPT !.hp = hp]

\* The same enemy, dead and fading.
FadingFoe ==
    [NewEnemy(640, 244, 3) EXCEPT !.hp = 0, !.is_dead_flag = TRUE,
                                  !.death_timer = 2]

InitCollisions ==
    \E c \in { Crossfire(<<ShotAt(640, 262)>>, Foe(55)),
               Crossfire(<<ShotAt(640, 262)>>, FadingFoe),
               Crossfire(<<ShotAt(640, 262), ShotAt(636, 262)>>, Foe(25)),
               Crossfire(<<ShotAt(640, 262), ShotAt(610, 262)>>, Foe(55)),
               Crossfire(<<ShotAt(610, 282)>>, Foe(55)) } : Start(c)

NextCollisions ==
    \/ QuietFrame
    \/ MouseDown

SpecCollisions == InitCollisions /\ [][NextCollisions]_vars

\* The game as the collision step of this tick finds it.
BeforeCollisions(rnd) ==
    StepBoss(
        StepEnemies(
            StepBullets(
                StepPowerUps(StepPlayer(World, dt, now, {}, <<640, 250>>),
                             dt, rnd),
                dt),
            dt, now),
        dt, rnd)

\* The enemies of w that bullet b overlaps.
Overlapped(w, b) ==
    {i \in 1..Len(w.enemies) : colliderect(BulletRect(b), EnemyRect(w.enemies[i]))}

\* The enemies of w that lose health in this step.
DamagedEnemies(w) ==
    {i \in 1..Min(Len(w.enemies), Len(enemies')) : enemies'[i].hp < w.enemies[i].hp}

\* The boss of w loses health in this step.
BossDamaged(w) == active_boss'.kind = w.boss.kind /\ active_boss'.hp < w.boss.hp

\* What the collision step may do to w: no more targets lose health than
\* bullets leave the list; a lone bullet b takes health from the first enemy
\* it overlaps and from nothing else, from the boss only when it overlaps no
\* enemy, and is gone when it overlapped anything.
OneTargetEach(w) ==
    /\ Cardinality(DamagedEnemies(w)) + (IF BossDamaged(w) THEN 1 ELSE 0)
           <= Len(w.bullets) - Len(bullets')
    /\ Len(w.bullets) = 1 =>
           LET b == w.bullets[1]
               over == Overlapped(w, b)
               on_boss == colliderect(BulletRect(b), BossRect(w.boss))
           IN  /\ over # {} => ~BossDamaged(w)
               /\ \A i \in DamagedEnemies(w) : i \in over /\ \A j \in over : i <= j
               /\ BossDamaged(w) => on_boss
               /\ (over # {} \/ on_boss) => bullets' = <<>>
               /\ (over = {} /\ on_boss /\ ~w.boss.is_dead_flag
                     /\ ~w.boss.invulnerable) => BossDamaged(w)
               /\ \A i \in over :
                     (~w.enemies[i].is_dead_flag /\ \A j \in over : i <= j
                        /\ Len(enemies') >= i) => i \in DamagedEnemies(w)

\* C22: in the collision step of a tick a player bullet damages at most one
\* target, an enemy before the boss and the boss only when it overlapped no
\* enemy; a bullet that hits leaves the list, so it never damages again.
C22_OneTargetEach ==
    [][ (IsFrame /\ Playing) => \E rnd \in RndChoices : OneTargetEach(BeforeCollisions(rnd)) ]_vars

\* The bullet met the enemy and the Charger at once: the enemy took the hit,
\* the boss none, and the bullet is gone.
C22_Witness ==
    /\ active_boss.kind = "charger" /\ active_boss.hp = 2000
    /\ Len(enemies) = 1 /\ enemies[1].hp = 30
    /\ bullets = <<>> /\ now = CheckpointTime + 1


\* ---------------------------------------------------------------------
\* Pause
\* ---------------------------------------------------------------------

\* Time left of the reload under way.
ReloadLeft ==
    IF player.is_reloading
    THEN Max(0, reload_time - (now - player.reload_start)) ELSE 0

\* Time left before the player may shoot again.
FireLeft == Max(0, FIRE_RATE - (now - player.last_shot_time))

\* Time left before enemy i may attack again.
AttackLeft(i) == Max(0, attack_cooldown - (now - enemies[i].last_attack))

\* Time left of the wave-clear delay.
ClearLeft ==
    IF game.wave_clear_time # 0
    THEN Max(0, wave_clear_delay - (now - game.wave_clear_time)) ELSE 0

\* C23: while the game is paused no step changes the remaining reload time,
\* an enemy's remaining attack cooldown, the remaining wave-clear delay or
\* the player's remaining fire-rate cooldown.
C23_PauseFreezes ==
    [][ game.paused =>
          /\ ReloadLeft' = ReloadLeft
          /\ FireLeft' = FireLeft
          /\ ClearLeft' = ClearLeft
          /\ Len(enemies') = Len(enemies)
          /\ \A i \in 1..Len(enemies) : AttackLeft(i)' = AttackLeft(i) ]_vars


\* ---------------------------------------------------------------------
\* Spawning
\* ---------------------------------------------------------------------

\* Wave 2 under way: one enemy out, n more to come, the spawn timer at t;
\* the player stands in the bottom spawn band.
Spawning(n, t) ==
    [ w |-> [ player |-> NewPlayer(SCREEN_W \div 2, 650),
              bullets |-> <<>>,
              enemies |-> << NewEnemy(900, 600, 2) >>,
              power_ups |-> <<>>,
              boss |-> NoBoss,
              g |-> [MidWave(2) EXCEPT !.enemies_remaining = n,
                                       !.spawn_timer = t] ],
      now |-> CheckpointTime ]

InitSpawns ==
    \E n \in 1..2, t \in {ENEMY_SPAWN_RATE - 3, ENEMY_SPAWN_RATE - 1} :
        Start(Spawning(n, t))

NextSpawns == QuietFrame

SpecSpawns == InitSpawns /\ [][NextSpawns]_vars

\* This tick's update_wave calls spawn_enemy.
SpawnDue ==
    /\ Playing /\ IsFrame
    /\ boss_waves(game.current_wave) = "none"
    /\ game.enemies_remaining > 0
    /\ game.spawn_timer + dt >= ENEMY_SPAWN_RATE

\* ... and spawn_enemy returns False: no enemy joins the list.
SpawnFails == SpawnDue /\ Len(enemies') <= Len(enemies)

\* C24 as stated: a spawn attempt that fails adds no enemy, the game goes
\* on, and the wave has one enemy less to spawn.
C24_FailedSpawn_Original ==
    [][ SpawnFails =>
          /\ Len(enemies') = Len(enemies) /\ game'.running /\ Playing'
          /\ game'.enemies_remaining = game.enemies_remaining - 1 ]_vars

\* C24: a spawn attempt that fails adds no enemy and the game goes on; the
\* attempt is abandoned for that tick only: the wave still has as many
\* enemies to spawn, and the spawn timer, not reset, makes the next tick
\* try again.
C24_FailedSpawn ==
    [][ SpawnFails =>
          /\ Len(enemies') = Len(enemies) /\ game'.running /\ Playing'
          /\ game'.enemies_remaining = game.enemies_remaining
          /\ game'.spawn_timer = game.spawn_timer + dt
          /\ game'.spawn_timer >= ENEMY_SPAWN_RATE ]_vars

\* A spawn has failed and the next tick will try again.
C24_Witness ==
    /\ game.enemies_remaining > 0 /\ game.spawn_timer >= ENEMY_SPAWN_RATE
    /\ Len(enemies) = 1


\* ---------------------------------------------------------------------
\* Walls
\* ---------------------------------------------------------------------

\* Wave 2: an enemy by the left wall, just hit by a bullet that pushes it
\* into the wall, the player below it to the right.
PushedToWall ==
    [ w |-> [ player |-> NewPlayer(300, 600),
              bullets |-> <<>>,
              enemies |-> << [NewEnemy(36, 300, 2) EXCEPT
                                 !.hp = 30, !.knockback_x = -ENEMY_KNOCKBACK],
                             NewEnemy(900, 670, 2) >>,
              power_ups |-> <<>>,
              boss |-> NoBoss,
              g |-> [MidWave(2) EXCEPT !.enemies_remaining = 0] ],
      now |-> CheckpointTime ]

\* Wave 3: the Charger in a dash along (dx, dy)/1000 that started at (x, y).
Dashing(x, y, dx, dy) ==
    [ w |-> [ player |-> NewPlayer(SCREEN_W \div 2, SCREEN_H \div 2),
              bullets |-> <<>>, enemies |-> <<>>, power_ups |-> <<>>,
              boss |-> [BossCharger(x, y) EXCEPT
                             !.state = "charging", !.charge_timer = 8,
                             !.charge_dir_x = dx, !.charge_dir_y = dy,
                             !.charge_cd_left = -2],
              g |-> MidWave(3) ],
      now |-> CheckpointTime ]

\* Wave 6: the Summoner backed into the top left corner by the player,
\* about to cast.
Cornered ==
    [ w |-> [ player |-> NewPlayer(200, 200),
              bullets |-> <<>>, enemies |-> <<>>, power_ups |-> <<>>,
              boss |-> [BossSummoner(68, 68) EXCEPT !.summon_timer = 2],
              g |-> MidWave(6) ],
      now |-> CheckpointTime ]

\* Wave 12: the Sniper about to teleport.
AboutToTeleport ==
    [ w |-> [ player |-> NewPlayer(SCREEN_W \div 2, SCREEN_H \div 2),
              bullets |-> <<>>, enemies |-> <<>>, power_ups |-> <<>>,
              boss |-> [BossSniper(SCREEN_W \div 2, 210) EXCEPT
                             !.tp_timer = 2, !.shoot_timer = 20],
              g |-> MidWave(12) ],
      now |-> CheckpointTime ]

InitWalls ==
    \E c \in { PushedToWall, Dashing(110, 360, -1000, 0),
               Dashing(1100, 600, 707, 707), Cornered, AboutToTeleport } :
        Start(c)

NextWalls == QuietFrame

SpecWalls == InitWalls /\ [][NextWalls]_vars

\* No enemy and no boss overlaps a wall.
NoActorInWall ==
    /\ \A i \in 1..Len(enemies) : ~HitsWall(EnemyRect(enemies[i]))
    /\ active_boss.kind # "none" => ~HitsWall(BossRect(active_boss))

\* The rectangle actor a (of the given size) would have after this tick's
\* step toward the resting player at the given speed.
CandidateRect(a, speed, size) ==
    LET dx == player.x - a.x
        dy == player.y - a.y
        dist == Hypot(dx, dy)
    IN  RectAt(a.x + TruncDiv(dx * speed * dt, dist * TimeScale)
                   + TruncDiv(a.knockback_x * dt, TimeScale),
               a.y + TruncDiv(dy * speed * dt, dist * TimeScale)
                   + TruncDiv(a.knockback_y * dt, TimeScale),
               size)

\* The player does not move in this tick.
PlayerRests ==
    /\ player.impulse_x = 0 /\ player.impulse_y = 0
    /\ player'.x = player.x /\ player'.y = player.y

\* A live enemy whose step is blocked stays where it is, on both axes.
BlockedEnemiesStay ==
    \A i \in 1..Min(Len(enemies), Len(enemies')) :
        (/\ ~enemies[i].is_dead_flag
         /\ Hypot(player.x - enemies[i].x, player.y - enemies[i].y) > 0
         /\ HitsWall(CandidateRect(enemies[i], enemies[i].speed, ENEMY_SIZE)))
        => enemies'[i].x = enemies[i].x /\ enemies'[i].y = enemies[i].y

\* The speed of the boss's step of this tick, 0 when the boss takes a step
\* of another kind.
BossStepSpeed ==
    LET b == active_boss
        dx == player.x - b.x
        dy == player.y - b.y
    IN  IF b.kind = "charger" /\ b.state = "idle" THEN b.speed
        ELSE IF b.kind = "summoner"
                /\ dx * dx + dy * dy < KITE_DISTANCE * KITE_DISTANCE
        THEN -b.speed
        ELSE 0

\* A live boss whose pursuit, retreat or dash is blocked stays where it is.
BlockedBossStays ==
    LET b == active_boss
        dash == RectAt(b.x + Displace(b.charge_dir_x, charge_speed, dt),
                       b.y + Displace(b.charge_dir_y, charge_speed, dt), b.size)
        blocked ==
            IF b.kind \in {"charger", "splitter"} /\ b.state = "charging"
            THEN HitsWall(dash)
            ELSE /\ BossStepSpeed # 0
                 /\ Hypot(player.x - b.x, player.y - b.y) > 0
                 /\ HitsWall(CandidateRect(b, BossStepSpeed, b.size))
    IN  (b.kind # "none" /\ ~b.is_dead_flag /\ blocked)
            => active_boss'.x = b.x /\ active_boss'.y = b.y

\* C25: an enemy's or boss's step whose candidate rectangle meets a wall
\* leaves the position as it was, on both axes; and after every step no
\* enemy or boss rectangle overlaps a wall.
C25_WallsHold ==
    [][ /\ NoActorInWall'
        /\ (IsFrame /\ Playing /\ PlayerRests) =>
               BlockedEnemiesStay /\ BlockedBossStays ]_vars

\* The enemy pushed at the wall has not moved, though its way down was
\* free; its knockback has worn off meanwhile.
C25_Witness ==
    /\ Len(enemies) = 2 /\ enemies[1].x = 36 /\ enemies[1].y = 300
    /\ enemies[1].knockback_x > -ENEMY_KNOCKBACK


\* ---------------------------------------------------------------------
\* Shots and the magazine
\* ---------------------------------------------------------------------

\* The magazine holds between 0 and max_ammo rounds.
AmmoInRange == 0 <= player.current_ammo /\ player.current_ammo <= player.max_ammo

\* What the last call, a successful shoot, did.
ShotFired ==
    (ev.op = "shoot" /\ ev.ret) =>
        /\ player.current_ammo = ev.pre.current_ammo - 1
        /\ player.last_shot_time = ev.arg
        /\ ev.arg - ev.pre.last_shot_time >= FIRE_RATE
        /\ ~ev.pre.is_reloading

\* C26: a successful Player.shoot takes exactly one round, stamps the
\* last-shot time with the current time and returns one projectile; it comes
\* at least fire_rate after the shot before it (only a successful shot moves
\* the stamp) and never during a reload; and 0 <= ammo <= max_ammo always,
\* capacity upgrades included.
C26_Shots ==
    [][ /\ ShotFired'
        /\ AmmoInRange'
        /\ player'.last_shot_time # player.last_shot_time =>
               (ev'.op = "shoot" /\ ev'.ret) ]_vars

\* A shot fired from a magazine enlarged by an upgrade.
C26_Witness ==
    /\ ev.op = "shoot" /\ ev.ret
    /\ player.max_ammo > PLAYER_MAX_AMMO
    /\ player.current_ammo = player.max_ammo - 1


---------------------------------------------------------------------------
(* A boss's update called frame after frame, with stopwatches: ev.ret      *)
(* holds the time updated so far (age), the time spent in the dash under   *)
(* way (dash) and idle with the dash cooldown running (idle), the time     *)
(* spent in the current shield phase (phase), a BossShielded of its own    *)
(* (shadow) that is updated with the same dt, and the number of times the  *)
(* player has stepped aside during a dash (moves).                         *)

\* Bounds of the runs: the time a boss is updated for, and the steps the
\* player takes during its dashes.
MaxBossTime == 72
MaxDodges == 1

\* A BossShielded in the shield phase of boss b.
ShadowOf(b) ==
    [BossShielded(b.x, b.y) EXCEPT !.invulnerable = b.invulnerable,
                                   !.shield_timer = b.shield_timer]

\* The stopwatches at the start of a run from game c.w: the boss has been
\* updated for c.age (0 if not given), left its last dash charge_cd -
\* charge_cd_left ago and has been in its shield phase since the timer was
\* set.
Stopwatches(c) ==
    [ age |-> IF "age" \in DOMAIN c THEN c.age ELSE 0,
      dash |-> charge_time - c.w.boss.charge_timer,
      idle |-> charge_cd - c.w.boss.charge_cd_left,
      phase |-> vulnerable_time - c.w.boss.shield_timer,
      shadow |-> ShadowOf(c.w.boss), moves |-> 0 ]

\* The game is in state c.w, the stopwatches set.
StartTimed(c) ==
    /\ now = c.now
    /\ dt = 1
    /\ player = c.w.player
    /\ bullets = c.w.bullets
    /\ enemies = c.w.enemies
    /\ power_ups = c.w.power_ups
    /\ active_boss = c.w.boss
    /\ game = c.w.g
    /\ ev = Event("init", 0, 0, NoAngle, Snapshot, Stopwatches(c))

\* The stopwatches after an update with dt = d that took the boss from
\* active_boss to active_boss', age time later.
Clocked(d, rnd, age) ==
    [ age |-> ev.ret.age + age,
      dash |-> IF active_boss.state = "charging" THEN ev.ret.dash + d ELSE 0,
      idle |-> IF active_boss.state = "idle" /\ active_boss.charge_cd_left > 0
               THEN ev.ret.idle + d ELSE 0,
      phase |-> IF active_boss'.invulnerable = active_boss.invulnerable
                THEN ev.ret.phase + d ELSE 0,
      shadow |-> BossShielded_update(
                     [boss |-> ev.ret.shadow, player |-> player,
                      enemies |-> <<>>, wave |-> 9], d, rnd).boss,
      moves |-> ev.ret.moves ]

\* active_boss.update(d, game)
UpdateBoss ==
    /\ active_boss.kind # "none"
    /\ \E d \in DtSet, rnd \in RndChoices :
          /\ ev.ret.age + d <= MaxBossTime
          /\ ApplyActors(Boss_update([boss |-> active_boss, player |-> player,
                                      enemies |-> enemies,
                                      wave |-> game.current_wave], d, rnd))
          /\ ev' = Event("update", 0, d, NoAngle, Snapshot, Clocked(d, rnd, d))
    /\ UNCHANGED <<now, dt, bullets, power_ups, game>>

\* player.update(dt, keys, walls) during a dash, the player walking up.
PlayerDodges ==
    /\ active_boss.state = "charging"
    /\ ev.ret.moves < MaxDodges
    /\ player' = Player_update(player, MaxDt, {"w"})
    /\ ev' = [ev EXCEPT !.ret.moves = @ + 1]
    /\ UNCHANGED <<now, dt, bullets, enemies, power_ups, active_boss, game>>

\* Wave 3: the Charger at (x, y), idle, its cooldown about to run out, and
\* the player at (px, py).
ChargerReady(x, y, px, py) ==
    [ w |-> [ player |-> NewPlayer(px, py),
              bullets |-> <<>>, enemies |-> <<>>, power_ups |-> <<>>,
              boss |-> [BossCharger(x, y) EXCEPT !.charge_cd_left = 3],
              g |-> MidWave(3) ],
      now |-> CheckpointTime ]

InitCharger ==
    \E c \in { ChargerReady(200, 200, 1100, 600),
               ChargerReady(640, 160, 640, 560),
               Dashing(300, 360, -1000, 0) } : StartTimed(c)

NextCharger ==
    \/ UpdateBoss
    \/ PlayerDodges

SpecCharger == InitCharger /\ [][NextCharger]_vars


\* ---------------------------------------------------------------------
\* The Charger's dash
\* ---------------------------------------------------------------------

\* The step is an update of the live boss.
BossUpdated ==
    /\ ev'.op = "update" /\ ev'.ret.age # ev.ret.age
    /\ ~active_boss.is_dead_flag

\* The direction of the dash is the same before and after the step.
SameDirection ==
    /\ active_boss'.charge_dir_x = active_boss.charge_dir_x
    /\ active_boss'.charge_dir_y = active_boss.charge_dir_y

\* C27: the Charger's dash direction changes only as a dash starts, never
\* during one, whatever the player does; no dash has lasted charge_time and
\* is still under way; every end of a dash sets the cooldown to charge_cd,
\* and a dash starts only after charge_cd of updates since the last one
\* ended.
C27_ChargerDash ==
    [][ active_boss.kind = "charger" =>
          /\ active_boss.state = "charging" => SameDirection
          /\ BossUpdated =>
               /\ active_boss'.state = "charging" => ev'.ret.dash < charge_time
               /\ (active_boss.state = "charging" /\ active_boss'.state = "idle")
                     => active_boss'.charge_cd_left = charge_cd
               /\ (active_boss.state = "idle" /\ active_boss'.state = "charging")
                     => ev'.ret.idle >= charge_cd ]_vars

\* A second dash has started, charge_cd after the first one ended on the
\* player, who had stepped aside during it.
C27_Witness ==
    /\ active_boss.kind = "charger" /\ active_boss.state = "charging"
    /\ ev.ret.dash = 0 /\ ev.ret.moves = 1
    /\ ev.ret.age > charge_cd /\ player.hp < PLAYER_HP


\* ---------------------------------------------------------------------
\* The Shielded boss's phases
\* ---------------------------------------------------------------------

\* active_boss.update(d, game), for as long as the game runs.
UpdateForever ==
    /\ active_boss.kind # "none"
    /\ \E d \in DtSet, rnd \in RndChoices :
          /\ ApplyActors(Boss_update([boss |-> active_boss, player |-> player,
                                      enemies |-> enemies,
                                      wave |-> game.current_wave], d, rnd))
          /\ ev' = Event("update", 0, d, NoAngle, Snapshot, Clocked(d, rnd, 0))
    /\ UNCHANGED <<now, dt, bullets, power_ups, game>>

\* Wave 9: the Shielded boss as spawn_boss makes it, over a player who
\* stands where bosses appear (so the boss has no way to go).
ShieldedSpawned ==
    [ w |-> spawn_boss([ player |-> NewPlayer(SCREEN_W \div 2,
                                              SCREEN_H \div 2 - 150),
                         bullets |-> <<>>, enemies |-> <<>>,
                         power_ups |-> <<>>, boss |-> NoBoss,
                         g |-> MidWave(9) ]),
      now |-> CheckpointTime ]

InitShielded == StartTimed(ShieldedSpawned)

NextShielded == UpdateForever

\* Game.run calls update in every frame for as long as the game runs.
SpecShielded ==
    InitShielded /\ [][NextShielded]_vars /\ WF_vars(NextShielded)

\* The length of the phase the boss is in.
PhaseLength == IF active_boss.invulnerable THEN invuln_time ELSE vulnerable_time

\* An update ends the phase exactly when the time spent in it, this update's
\* dt included, has reached the phase's length.
PhaseEndsOnTime ==
    (active_boss'.invulnerable # active_boss.invulnerable)
        <=> ev.ret.phase + ev'.arg >= PhaseLength

\* C28: the Shielded boss starts vulnerable; each phase ends in the update
\* in which the dt accumulated in it reaches the phase's length, and not
\* before; and, updated forever, a vulnerable boss always becomes
\* invulnerable and an invulnerable boss always becomes vulnerable again.
C28_ShieldCycle ==
    /\ ~active_boss.invulnerable
    /\ [][ (active_boss.kind = "shielded" /\ ~active_boss.is_dead_flag)
              => PhaseEndsOnTime ]_vars
    /\ (active_boss.invulnerable ~> ~active_boss.invulnerable)
    /\ (~active_boss.invulnerable ~> active_boss.invulnerable)

\* The boss has come out of an invulnerable window.
C28_Witness ==
    /\ active_boss.kind = "shielded" /\ ~active_boss.invulnerable
    /\ ev.op = "update" /\ ev.pre.boss.invulnerable
    /\ ev.ret.phase = 0


\* ---------------------------------------------------------------------
\* The final boss: shield, dash and teleport together
\* ---------------------------------------------------------------------

\* Bound of the runs of the final boss: they start at this age.
SplitterAge == MaxBossTime - 12

\* Wave 15: the final boss in a dash to the right, far from the player; its
\* shield phase, its teleport timer, its summon and its shot all run out
\* before the dash does.
SplitterDashing ==
    [ w |-> [ player |-> NewPlayer(1000, 600),
              bullets |-> <<>>, enemies |-> <<>>, power_ups |-> <<>>,
              boss |-> [BossSplitter(300, 300) EXCEPT
                             !.state = "charging", !.charge_timer = 8,
                             !.charge_dir_x = 1000, !.charge_dir_y = 0,
                             !.charge_cd_left = -2, !.shield_timer = 3,
                             !.tp_timer = 2, !.summon_timer = 4,
                             !.shoot_timer = 5],
              g |-> MidWave(15) ],
      now |-> CheckpointTime, age |-> SplitterAge ]

\* Wave 15: the final boss idle and invulnerable, about to teleport and then
\* to dash.
SplitterIdle ==
    [ w |-> [ player |-> NewPlayer(SCREEN_W \div 2, SCREEN_H \div 2),
              bullets |-> <<>>, enemies |-> <<>>, power_ups |-> <<>>,
              boss |-> [BossSplitter(SCREEN_W \div 2, 210) EXCEPT
                             !.invulnerable = TRUE, !.shield_timer = 6,
                             !.charge_cd_left = 4, !.tp_timer = 2,
                             !.summon_timer = 30, !.shoot_timer = 20],
              g |-> MidWave(15) ],
      now |-> CheckpointTime, age |-> SplitterAge ]

InitSplitter == \E c \in {SplitterDashing, SplitterIdle} : StartTimed(c)

NextSplitter ==
    \/ UpdateBoss
    \/ PlayerDodges

SpecSplitter == InitSplitter /\ [][NextSplitter]_vars

\* A timer that is reduced by d and set to cd when that leaves it at 0 or
\* less.
Rearmed(t, d, cd) == IF t - d <= 0 THEN cd ELSE t - d

\* C29: in every update of the live final boss, dashing or idle, its shield
\* is in the phase and at the timer value of a standalone Shielded boss
\* updated with the same dt values, and its summon and shot timers have
\* been reduced by dt (and set anew where that ran them out).
C29_ShieldApart ==
    [][ (active_boss.kind = "splitter" /\ BossUpdated) =>
          /\ active_boss'.invulnerable = ev'.ret.shadow.invulnerable
          /\ active_boss'.shield_timer = ev'.ret.shadow.shield_timer
          /\ active_boss'.summon_timer =
                 Rearmed(active_boss.summon_timer, ev'.arg, summon_cd)
          /\ active_boss'.shoot_timer =
                 Rearmed(active_boss.shoot_timer, ev'.arg, SPLITTER_SHOOT_CD) ]_vars

\* The shield changed phase in the middle of a dash.
C29_Witness ==
    /\ active_boss.kind = "splitter" /\ active_boss.state = "charging"
    /\ ev.op = "update" /\ ev.pre.boss.state = "charging"
    /\ active_boss.invulnerable /\ ~ev.pre.boss.invulnerable

\* The place the dash takes the boss to in this update.
DashTarget(b, d) ==
    <<b.x + Displace(b.charge_dir_x, charge_speed, d),
      b.y + Displace(b.charge_dir_y, charge_speed, d)>>

\* C30: an update of the final boss that begins in a dash does not teleport:
\* the teleport timer only runs on, below zero if need be, and the boss stays
\* or moves by the dash step along its frozen direction; the teleport timer
\* is set anew only in an update that begins idle, and the first such update
\* with the timer run out does so.
C30_TeleportWhenIdle ==
    [][ (active_boss.kind = "splitter" /\ BossUpdated) =>
          /\ active_boss.state = "charging" =>
               /\ active_boss'.tp_timer = active_boss.tp_timer - ev'.arg
               /\ SameDirection
               /\ <<active_boss'.x, active_boss'.y>> \in
                      {<<active_boss.x, active_boss.y>>,
                       DashTarget(active_boss, ev'.arg)}
          /\ active_boss'.tp_timer > active_boss.tp_timer =>
               active_boss.state = "idle"
          /\ active_boss.state = "idle" =>
               active_boss'.tp_timer =
                   Rearmed(active_boss.tp_timer, ev'.arg, teleport_cd) ]_vars

\* The teleport timer ran out during a dash and the boss has teleported in
\* the first update after it.
C30_Witness ==
    /\ active_boss.kind = "splitter" /\ ev.op = "update"
    /\ ev.pre.boss.state = "idle" /\ ev.pre.boss.tp_timer < 0
    /\ active_boss.tp_timer = teleport_cd


\* ---------------------------------------------------------------------
\* The wave director's quota
\* ---------------------------------------------------------------------

\* Wave 1 has been cleared and the upgrade screen is open.
FirstWaveCleared ==
    [WaveCleared EXCEPT !.w.g.current_wave = 1]

\* Wave 4: one enemy still to spawn, due in a tick, while the only enemy
\* out is at the end of its fade.
FadingWhileSpawning ==
    [LastEnemyFading EXCEPT !.w.g.enemies_remaining = 1,
                            !.w.g.spawn_timer = ENEMY_SPAWN_RATE - 1]

InitDirector ==
    \/ InitSpawns
    \/ \E c \in {FirstWaveCleared, LastEnemyFading, FadingWhileSpawning} :
          Start(c)

NextDirector ==
    \/ QuietFrame
    \/ KeyDigit

SpecDirector == InitDirector /\ [][NextDirector]_vars

\* The game as update_wave finds it in this tick.
BeforeWave(rnd) == StepGameOver(StepBossContact(StepCollisions(BeforeCollisions(rnd))))

\* The last enemy of the list stands clear of the walls, of the player's
\* hitbox padded by 40 and of every other enemy's hitbox padded by 10.
PlacedClear ==
    LET r == EnemyRect(enemies'[Len(enemies')])
    IN  /\ ~HitsWall(r)
        /\ ~colliderect(r, inflate(PlayerRect(player'), 40, 40))
        /\ \A i \in 1..(Len(enemies') - 1) :
              ~colliderect(r, inflate(EnemyRect(enemies'[i]), 10, 10))

\* What update_wave may do to w in a wave without boss: it creates at most
\* one enemy; a creation comes after ENEMY_SPAWN_RATE of accumulated dt,
\* takes exactly one off enemies_remaining, restarts the timer and places
\* the enemy clear; without a creation the counter stays and the timer has
\* accumulated dt; the wave is found clear only with the counter at 0.
DirectorStep(w) ==
    /\ Len(enemies') \in {Len(w.enemies), Len(w.enemies) + 1}
    /\ Len(enemies') = Len(w.enemies) + 1 =>
          /\ game.enemies_remaining > 0
          /\ game.spawn_timer + dt >= ENEMY_SPAWN_RATE
          /\ game'.enemies_remaining = game.enemies_remaining - 1
          /\ game'.spawn_timer = 0
          /\ \E pos \in SpawnPoints :
                enemies'[Len(enemies')] = NewEnemy(pos[1], pos[2], game.current_wave)
          /\ PlacedClear
    /\ Len(enemies') = Len(w.enemies) =>
          /\ game'.enemies_remaining = game.enemies_remaining
          /\ game.enemies_remaining > 0 =>
                game'.spawn_timer = game.spawn_timer + dt
    /\ game'.showing_upgrades =>
          game.enemies_remaining = 0 /\ w.enemies = <<>>

\* C31: in a wave N without boss the director creates exactly 3 + 2*(N-1)
\* enemies before the wave can be found clear: the wave starts with that
\* number in enemies_remaining and a spawn timer of 0; each tick creates at
\* most one enemy, only after at least ENEMY_SPAWN_RATE of accumulated dt,
\* and takes exactly 1 off the counter, which never falls below 0; the wave
\* is found clear only with the counter at 0; and every enemy created is
\* clear of the walls, of the player's padded hitbox and of the other
\* enemies' padded hitboxes.
C31_WaveQuota ==
    /\ [](game.enemies_remaining >= 0)
    /\ [][ (game'.current_wave # game.current_wave
              /\ boss_waves(game'.current_wave) = "none") =>
             /\ game'.current_wave = game.current_wave + 1
             /\ game'.enemies_remaining = 3 + 2 * (game'.current_wave - 1)
             /\ game'.spawn_timer = 0
             /\ enemies' = <<>> ]_vars
    /\ [][ (IsFrame /\ Playing /\ boss_waves(game.current_wave) = "none") =>
             IF game'.current_wave = game.current_wave
             THEN \E rnd \in RndChoices : DirectorStep(BeforeWave(rnd))
             ELSE game.enemies_remaining = 0 /\ enemies' = <<>> ]_vars

\* The last enemy of wave 2 has just been created, clear of the enemy
\* already out: nothing is left to spawn and the wave is not clear.
C31_Witness ==
    /\ game.current_wave = 2 /\ game.enemies_remaining = 0
    /\ game.spawn_timer = 0 /\ Len(enemies) = 2
    /\ <<enemies[2].x, enemies[2].y>> \in SpawnPoints
    /\ ~game.showing_upgrades


\* ---------------------------------------------------------------------
\* The player's movement
\* ---------------------------------------------------------------------

\* The movement keys that can be held.
MoveKeys == {{}, {"s"}, {"d"}, {"s", "d"}, {"w", "a"}}

\* Places next to the right wall, in the bottom right corner and next to
\* the top wall, and the impulse a knockback leaves.
PlayerPlaces == {<<1240, 600>>, <<1238, 678>>, <<640, 40>>, <<42, 38>>}
PlayerImpulses == {<<0, 0>>, <<160, 0>>, <<0, -240>>}

InitPlayerMove ==
    \E pos \in PlayerPlaces, imp \in PlayerImpulses :
        Start([ w |-> [ player |-> Player_apply_impulse(
                                       NewPlayer(pos[1], pos[2]), imp[1], imp[2]),
                        bullets |-> <<>>, enemies |-> <<>>, power_ups |-> <<>>,
                        boss |-> NoBoss, g |-> MidWave(1) ],
                now |-> CheckpointTime ])

\* player.update(dt, keys, walls)
MovePlayer ==
    /\ \E keys \in MoveKeys, d \in DtSet :
          /\ now + d <= Horizon
          /\ player' = Player_update(player, d, keys)
          /\ now' = now + d
          /\ dt' = d
          /\ ev' = Event("move", 0, d, NoAngle, Snapshot, keys)
    /\ UNCHANGED <<bullets, enemies, power_ups, active_boss, game>>

NextPlayerMove == MovePlayer

SpecPlayerMove == InitPlayerMove /\ [][NextPlayerMove]_vars

\* The displacement the last update asked for on each axis: keys and
\* impulse.
AskedX ==
    LET k == ev.ret
        ax == (IF "d" \in k THEN 1 ELSE 0) - (IF "a" \in k THEN 1 ELSE 0)
        ay == (IF "s" \in k THEN 1 ELSE 0) - (IF "w" \in k THEN 1 ELSE 0)
    IN  TruncDiv(ax * (IF ay # 0 THEN 707 ELSE 1000) * ev.pre.player.speed * ev.arg,
                 1000 * TimeScale)
        + TruncDiv(ev.pre.player.impulse_x * ev.arg, TimeScale)

AskedY ==
    LET k == ev.ret
        ax == (IF "d" \in k THEN 1 ELSE 0) - (IF "a" \in k THEN 1 ELSE 0)
        ay == (IF "s" \in k THEN 1 ELSE 0) - (IF "w" \in k THEN 1 ELSE 0)
    IN  TruncDiv(ay * (IF ax # 0 THEN 707 ELSE 1000) * ev.pre.player.speed * ev.arg,
                 1000 * TimeScale)
        + TruncDiv(ev.pre.player.impulse_y * ev.arg, TimeScale)

\* A wall stands in the way of the X displacement alone, and of the Y
\* displacement from where the X step has left the player.
BlockedX == HitsWall(RectAt(ev.pre.player.x + AskedX, ev.pre.player.y, PLAYER_SIZE))
BlockedY == HitsWall(RectAt(player.x, ev.pre.player.y + AskedY, PLAYER_SIZE))

\* C32: the player's update resolves the X and the Y displacement one
\* after the other: each is taken whole unless a wall stands in its own
\* way, so a displacement blocked on one axis does not stop the other
\* (sliding); and after every update the player's rectangle meets no wall.
C32_AxesApart ==
    ev.op = "move" =>
        /\ player.x = (IF BlockedX THEN ev.pre.player.x
                       ELSE ev.pre.player.x + AskedX)
        /\ player.y = (IF BlockedY THEN ev.pre.player.y
                       ELSE ev.pre.player.y + AskedY)
        /\ ~HitsWall(PlayerRect(player))

\* The player, held by the right wall, has slid down along it.
C32_Witness ==
    /\ ev.op = "move" /\ ev.ret = {"s", "d"}
    /\ BlockedX /\ AskedX > 0 /\ player.x = ev.pre.player.x
    /\ AskedY > 0 /\ player.y = ev.pre.player.y + AskedY


\* ---------------------------------------------------------------------
\* Enemy attacks
\* ---------------------------------------------------------------------

\* Wave 2, every enemy spawned: one enemy closing in from 32 pixels, its
\* last attack at time la1; one in contact, its last attack at la2; one
\* far away that has never attacked.  The player has hp health.
Contact(hp, la1, la2) ==
    [ w |-> [ player |-> [NewPlayer(SCREEN_W \div 2, SCREEN_H \div 2)
                             EXCEPT !.hp = hp],
              bullets |-> <<>>,
              enemies |-> << [NewEnemy(672, 360, 2) EXCEPT !.last_attack = la1],
                             [NewEnemy(640, 385, 2) EXCEPT !.last_attack = la2],
                             NewEnemy(300, 200, 2) >>,
              power_ups |-> <<>>,
              boss |-> NoBoss,
              g |-> MidWave(2) ],
      now |-> CheckpointTime ]

InitContact ==
    \E hp \in {PLAYER_HP, 30},
       la1 \in {0, CheckpointTime - attack_cooldown + 1},
       la2 \in {CheckpointTime - attack_cooldown + 3, CheckpointTime - 1} :
        Start(Contact(hp, la1, la2))

NextContact == QuietFrame

SpecContact == InitContact /\ [][NextContact]_vars

\* Enemy i as its attack call of this tick finds it: moved by its update.
Arrived(i) == Enemy_update(enemies[i], dt, player)

\* Enemy i is alive, within the contact radius of the player, and its
\* last attack is at least attack_cooldown back on the clock.
InReach(i) ==
    /\ ~enemies[i].is_dead_flag
    /\ (player.x - Arrived(i).x) * (player.x - Arrived(i).x)
         + (player.y - Arrived(i).y) * (player.y - Arrived(i).y)
           <= ATTACK_RADIUS * ATTACK_RADIUS
CooledDown(i) == now - enemies[i].last_attack >= attack_cooldown

\* The enemies that attack in this tick.
Attackers == {i \in 1..Len(enemies) : InReach(i) /\ CooledDown(i)}

\* C33: in a tick of the running game a live enemy attacks the player
\* exactly when, after its move, the player is within the contact radius
\* and at least attack_cooldown has passed on the clock since its last
\* attack; each attack takes the enemy's damage off the player's health
\* (down to 0) and stamps the clock on the enemy, so two attacks of one
\* enemy are at least attack_cooldown apart.
C33_EnemyAttack ==
    [][ (IsFrame /\ Playing /\ Len(enemies') = Len(enemies)
           /\ player'.x = player.x /\ player'.y = player.y) =>
          /\ \A i \in 1..Len(enemies) :
                /\ enemies'[i].last_attack =
                      (IF i \in Attackers THEN now ELSE enemies[i].last_attack)
                /\ enemies'[i].last_attack # enemies[i].last_attack =>
                      enemies'[i].last_attack - enemies[i].last_attack
                          >= attack_cooldown
          /\ player'.hp =
                Max(0, player.hp - ENEMY_DAMAGE * Cardinality(Attackers)) ]_vars

\* The enemy that closed in has attacked for the first time since its
\* cooldown ran out, the enemy in contact has not attacked yet.
C33_Witness ==
    /\ Len(enemies) = 3 /\ player.hp = PLAYER_HP - ENEMY_DAMAGE
    /\ enemies[1].last_attack > CheckpointTime
    /\ enemies[2].last_attack < CheckpointTime
    /\ Hypot(player.x - enemies[2].x, player.y - enemies[2].y) <= ATTACK_RADIUS


\* ---------------------------------------------------------------------
\* Boss projectiles
\* ---------------------------------------------------------------------

\* Wave 12: the player, with hp health, stands against the right wall; the
\* Sniper, far away, has three bullets in flight: one off pixels short of
\* reaching the player and the wall together, one about to hit the top
\* wall, one in the open.
SniperVolley(hp, off) ==
    [ w |-> [ player |-> [NewPlayer(SCREEN_W - 35, SCREEN_H \div 2)
                             EXCEPT !.hp = hp],
              bullets |-> <<>>, enemies |-> <<>>, power_ups |-> <<>>,
              boss |-> [BossSniper(300, 360) EXCEPT
                           !.tp_timer = 45, !.shoot_timer = 30,
                           !.bullets =
                               << [BossBullet(300, 360, 0, 550, 50, 8)
                                      EXCEPT !.x = 1204 - off],
                                  [BossBullet(300, 360, -90, 550, 50, 8)
                                      EXCEPT !.y = 60 - off],
                                  [BossBullet(300, 360, 45, 550, 50, 8)
                                      EXCEPT !.x = 500, !.y = 560] >>],
              g |-> MidWave(12) ],
      now |-> CheckpointTime ]

\* Wave 15: the same with the final boss: a splitting bullet and a child
\* bullet short of the player and the wall, a child about to leave by the
\* top wall.
SplitterVolley(hp, off) ==
    [ w |-> [ player |-> [NewPlayer(SCREEN_W - 35, SCREEN_H \div 2)
                             EXCEPT !.hp = hp],
              bullets |-> <<>>, enemies |-> <<>>, power_ups |-> <<>>,
              boss |-> [BossSplitter(300, 360) EXCEPT
                           !.charge_cd_left = 40, !.summon_timer = 50,
                           !.tp_timer = 45, !.shoot_timer = 30,
                           !.bullets =
                               << [SplitterBullet(1000, 370, 0, 400, 25, 16, 300)
                                      EXCEPT !.x = 1220 - off,
                                             !.distance_traveled = 220 - off],
                                  [BossBullet(900, 350, 0, SPLIT_CHILD_SPEED, 12,
                                              SPLIT_CHILD_SIZE)
                                      EXCEPT !.x = 1214 - off],
                                  [BossBullet(300, 200, -90, SPLIT_CHILD_SPEED, 12,
                                              SPLIT_CHILD_SIZE)
                                      EXCEPT !.y = 50 - off] >>],
              g |-> MidWave(15) ],
      now |-> CheckpointTime ]

InitProjectiles ==
    \E hp \in {PLAYER_HP, 40}, off \in {0, 2, 12} :
        \/ Start(SniperVolley(hp, off))
        \/ Start(SplitterVolley(hp, off))

NextProjectiles == UpdateActors

SpecProjectiles == InitProjectiles /\ [][NextProjectiles]_vars

\* The last update was the bullet loop of a Sniper or of the final boss and
\* nothing but the bullets it began with could touch the player: the boss
\* fired none and was not dashing, the player wore no armor.
BulletLoopOnly ==
    /\ ev.op = "update"
    /\ ev.pre.boss.kind \in {"sniper", "splitter"}
    /\ ~ev.pre.boss.is_dead_flag
    /\ ev.pre.boss.shoot_timer - ev.arg > 0
    /\ ev.pre.boss.state # "charging" /\ active_boss.state # "charging"
    /\ ev.pre.player.armor = 0

\* Bullet b became inactive in the last update: on a wall or out of bounds.
WentInactive(b) ==
    \/ HitsWall(RectAt(MovedX(b), MovedY(b), b.size))
    \/ OutOfBounds(MovedX(b), MovedY(b))

\* Bullet b, where the update moved it, is still in the boss's list.
StillListed(b) ==
    \E j \in 1..Len(BulletsAfter) :
        /\ BulletsAfter[j].kind = b.kind
        /\ BulletsAfter[j].x = MovedX(b) /\ BulletsAfter[j].y = MovedY(b)

\* The bullets that overlapped the player while active, and those that
\* overlapped the player at all.
ActiveOnPlayer ==
    {k \in 1..Len(BulletsBefore) :
        HitsPlayerNow(BulletsBefore[k]) /\ ~WentInactive(BulletsBefore[k])}
SplittingOnPlayer ==
    {k \in SplittingBullets(BulletsBefore) :
        HitsPlayerNow(BulletsBefore[k]) /\ WentInactive(BulletsBefore[k])}

\* Every bullet that overlapped the player or became inactive has left the
\* list: none can damage the player a second time.
SpentBulletsLeave ==
    \A k \in 1..Len(BulletsBefore) :
        (HitsPlayerNow(BulletsBefore[k]) \/ WentInactive(BulletsBefore[k]))
            => ~StillListed(BulletsBefore[k])

\* C34 as stated: a boss projectile damages the player at most once and
\* leaves the list in the tick it does so; one that becomes inactive in a
\* tick leaves the list and deals no damage in that tick.
C34_Projectiles_Original ==
    BulletLoopOnly =>
        /\ SpentBulletsLeave
        /\ player.hp = Max(0, ev.pre.player.hp - DamageOf(ActiveOnPlayer))

\* C34: a boss projectile damages the player at most once and leaves the
\* list in the tick it does so; one that becomes inactive in a tick leaves
\* the list in that tick; a Sniper bullet or a split child that becomes
\* inactive deals no damage in that tick, but a splitting bullet is tested
\* against the player first: one that becomes inactive while overlapping
\* the player damages the player once in that tick.
C34_Projectiles ==
    BulletLoopOnly =>
        /\ SpentBulletsLeave
        /\ player.hp = Max(0, ev.pre.player.hp
                                - DamageOf(ActiveOnPlayer \cup SplittingOnPlayer))

\* A splitting bullet reached the wall and the player standing against it
\* in the same tick: the player paid for it and the bullet is gone.
C34_Witness ==
    /\ BulletLoopOnly
    /\ SplittingOnPlayer # {}
    /\ player.hp < ev.pre.player.hp
    /\ \A k \in SplittingOnPlayer : ~StillListed(BulletsBefore[k])


\* ---------------------------------------------------------------------
\* Power-ups
\* ---------------------------------------------------------------------

\* Wave 2 under way, no enemy out yet: a power-up of type kind, t1 ticks
\* of lifetime left, one step to the right of the hurt player; a regen
\* two steps away; an armor across the arena with t2 ticks left.
PickUps(kind, t1, t2) ==
    [ w |-> [ player |-> [NewPlayer(SCREEN_W \div 2, SCREEN_H \div 2)
                             EXCEPT !.hp = 60],
              bullets |-> <<>>, enemies |-> <<>>,
              power_ups |-> << [PowerUp(672, 360, kind) EXCEPT !.time_left = t1],
                               [PowerUp(694, 360, "regen") EXCEPT !.time_left = 30],
                               [PowerUp(300, 200, "armor") EXCEPT !.time_left = t2] >>,
              boss |-> NoBoss,
              g |-> [MidWave(2) EXCEPT !.enemies_remaining = 5] ],
      now |-> CheckpointTime ]

InitPowerUps ==
    \E kind \in PowerTypes, t1 \in {1, 2, 30}, t2 \in {2, 3} :
        Start(PickUps(kind, t1, t2))

NextPowerUps == Frame

SpecPowerUps == InitPowerUps /\ [][NextPowerUps]_vars

\* Power-up k runs out of lifetime in this tick.
Expires(k) == power_ups[k].time_left - dt <= 0

\* The power-ups the player, where this tick's move has put it, collects:
\* those it overlaps that have not run out.
Collected ==
    {k \in 1..Len(power_ups) :
        /\ ~Expires(k)
        /\ colliderect(PlayerRect(player'), PowerUpRect(power_ups[k]))}

RECURSIVE Remaining(_)
\* The power-ups from index k on that this tick leaves in the list.
Remaining(k) ==
    IF k > Len(power_ups) THEN <<>>
    ELSE (IF Expires(k) \/ k \in Collected THEN <<>>
          ELSE << [power_ups[k] EXCEPT !.time_left = @ - dt] >>)
         \o Remaining(k + 1)

RECURSIVE Effects(_, _)
\* Player p after the effect, applied once, of each collected power-up from
\* index k on.
Effects(p, k) ==
    IF k > Len(power_ups) THEN p
    ELSE Effects(IF k \in Collected
                 THEN apply_power_up(p, power_ups[k].power_type) ELSE p, k + 1)

\* C35: a power-up is collected in a tick when the player overlaps it and
\* its lifetime has not run out in that tick; its effect is applied once
\* and it leaves the list in that tick; a power-up whose lifetime reaches
\* 0 leaves the list in that tick without effect, even under the player;
\* so no power-up left in the list is collected or out of lifetime.
C35_PowerUps ==
    /\ [](\A k \in 1..Len(power_ups) :
             ~power_ups[k].collected /\ power_ups[k].time_left > 0)
    /\ [][ (IsFrame /\ Playing
              /\ game.power_up_spawn_timer + dt < power_up_spawn_rate) =>
             /\ power_ups' = Remaining(1)
             /\ player'.hp = Effects(player, 1).hp
             /\ player'.max_hp = Effects(player, 1).max_hp
             /\ player'.armor = Effects(player, 1).armor ]_vars

\* The player stands on a power-up that ran out in the tick it was
\* reached, and got nothing from it; the others are still there.
C35_Witness ==
    /\ Len(power_ups) = 2 /\ power_ups[1].power_type = "regen"
    /\ player.x = 650 /\ player.hp = 60 /\ player.max_hp = PLAYER_HP
    /\ player.armor = 0


\* ---------------------------------------------------------------------
\* The upgrade screen and the game-over state
\* ---------------------------------------------------------------------

\* C36: the upgrade screen and the game-over state are never both active:
\* in no reachable state are showing_upgrades and game_over both true, also
\* after a tick in which the player and a boss die together.
C36_GateNotWithGameOver ==
    ~(game.showing_upgrades /\ game.game_over)


\* ---------------------------------------------------------------------
\* Upgrades
\* ---------------------------------------------------------------------

\* Wave 2 was found clear 37 ticks ago, the upgrade screen is open, and the
\* player carries the speed upgrade chosen after wave 1.
UpgradedOnce ==
    [WaveCleared EXCEPT !.w.player = Player_upgrade_speed(@)]

InitUpgrades ==
    \E c \in {FirstWaveCleared, UpgradedOnce, ChargerFight} : Start(c)

NextUpgrades == NextWaves

SpecUpgrades == InitUpgrades /\ [][NextUpgrades]_vars

\* The upgrades the player carries: each upgrade_speed, upgrade_damage and
\* upgrade_ammo_capacity leaves its mark.
Upgrades(p) ==
    p.speed_level + p.damage_level + (p.max_ammo - PLAYER_MAX_AMMO) \div 5

\* The step applies the upgrade of one card to the player, and nothing
\* else.
OneCardApplied ==
    \E i \in 0..2 : player' = select_upgrade(World, i).player

\* A new run begins: start_game or restart_game.
NewRun == game'.current_wave = 1 /\ player' = NewPlayer(SCREEN_W \div 2, SCREEN_H \div 2)

\* The parts of C37 that do not count waves: an index that is not a card
\* changes nothing and digits outside the upgrade screen change nothing;
\* the upgrades change only by one card chosen on the open screen, which
\* closes it, or by a new run; the screen opens once per cleared wave.
UpgradeSteps ==
    /\ [](/\ \A i \in {-1, 3, 4} : select_upgrade(World, i) = World
          /\ ~game.showing_upgrades => \A i \in 0..2 : on_digit(World, i) = World)
    /\ [][ Upgrades(player') # Upgrades(player) =>
             \/ NewRun
             \/ /\ game.showing_upgrades /\ ~game'.showing_upgrades
                /\ Upgrades(player') = Upgrades(player) + 1
                /\ OneCardApplied ]_vars
    /\ [][ (~game.showing_upgrades /\ game'.showing_upgrades) =>
             game.wave_clear_time = 0 /\ game'.wave_clear_time # 0 ]_vars
    /\ [][ (game.wave_clear_time # 0 /\ game'.wave_clear_time = 0) =>
             \/ NewRun
             \/ game'.current_wave = game.current_wave + 1 ]_vars

\* C37 as stated: at most one upgrade per opening of the upgrade screen,
\* and the number of upgrades applied never exceeds the wave number - 1.
C37_OneUpgradePerGate_Original ==
    /\ UpgradeSteps
    /\ [](Upgrades(player) <= game.current_wave - 1)

\* C37: at most one upgrade is applied per opening of the upgrade screen:
\* a valid index applies the chosen upgrade and closes the screen, an
\* invalid index and inputs outside the screen change nothing; so the
\* number of upgrades applied never exceeds the number of waves cleared,
\* which is the wave number - 1 and one more from the moment the current
\* wave is found clear until the next wave starts.
C37_OneUpgradePerGate ==
    /\ UpgradeSteps
    /\ [](Upgrades(player) <=
            game.current_wave - 1 + (IF game.wave_clear_time # 0 THEN 1 ELSE 0))

\* The upgrade for clearing wave 1 has been chosen and wave 2 has not yet
\* started.
C37_Witness ==
    /\ game.current_wave = 1 /\ ~game.showing_upgrades /\ ~game.in_menu
    /\ game.wave_clear_time # 0
    /\ Upgrades(player) = 1


\* ---------------------------------------------------------------------
\* Bosses and their waves
\* ---------------------------------------------------------------------

\* Wave 5 was found clear 37 ticks ago and the upgrade screen is open.
FifthWaveCleared ==
    [WaveCleared EXCEPT !.w.g.current_wave = 5]

\* Wave 3: the Charger was beaten 38 ticks ago and the upgrade chosen.
ChargerBeaten ==
    [ChargerFight EXCEPT
        !.w.boss = [@ EXCEPT !.hp = 0, !.is_dead_flag = TRUE],
        !.w.g.wave_clear_time = CheckpointTime - 38]

InitBossWaves ==
    \E c \in {FifthWaveCleared, ChargerBeaten, Cornered, ChargerFight} :
        Start(c)

NextBossWaves == NextWaves

SpecBossWaves == InitBossWaves /\ [][NextBossWaves]_vars

\* C38: a boss exists only during a boss wave and is of the kind of that
\* wave (3 Charger, 6 Summoner, 9 Shielded, 12 Sniper, 15 Splitter); in a
\* wave without boss there is no active boss; and during a boss wave the
\* wave director creates no enemy: it has none to spawn, its step leaves
\* the enemy list as it found it or empty, and the list grows only in a
\* tick of a boss that summons.
C38_BossOfItsWave ==
    /\ [](/\ active_boss.kind # "none" =>
                active_boss.kind = boss_waves(game.current_wave)
          /\ boss_waves(game.current_wave) = "none" => active_boss = NoBoss
          /\ boss_waves(game.current_wave) # "none" => game.enemies_remaining = 0
          /\ boss_waves(3) = "charger" /\ boss_waves(6) = "summoner"
          /\ boss_waves(9) = "shielded" /\ boss_waves(12) = "sniper"
          /\ boss_waves(15) = "splitter"
          /\ \A n \in (1..16) \ {3, 6, 9, 12, 15} : boss_waves(n) = "none")
    /\ [][ (IsFrame /\ Playing /\ boss_waves(game.current_wave) # "none"
              /\ game'.current_wave = game.current_wave) =>
             /\ \E rnd \in RndChoices :
                   enemies' \in {BeforeWave(rnd).enemies, <<>>}
             /\ Len(enemies') > Len(enemies) =>
                   active_boss.kind \in {"summoner", "splitter"} ]_vars

\* Wave 6 has begun during the run and its boss, the Summoner, has been
\* created with nothing for the director to spawn.
C38_Witness ==
    /\ now > CheckpointTime
    /\ game.current_wave = 6
    /\ active_boss = BossSummoner(SCREEN_W \div 2, SCREEN_H \div 2 - BOSS_SPAWN_DY)
    /\ game.enemies_remaining = 0


\* C39: whenever a boss wave begins the enemy list is empty, fading
\* enemies included, and there is no boss; so the first tick of the wave
\* director in that wave creates the boss: no enemy left over delays it.
C39_BossWaveStartsEmpty ==
    /\ [][ (game'.current_wave # game.current_wave
              /\ boss_waves(game'.current_wave) # "none") =>
             /\ game'.current_wave = game.current_wave + 1
             /\ enemies' = <<>> /\ active_boss' = NoBoss
             /\ IsFrame /\ Playing' ]_vars
    /\ [][ (IsFrame /\ Playing /\ boss_waves(game.current_wave) # "none"
              /\ active_boss = NoBoss) =>
             /\ enemies = <<>> /\ enemies' = <<>>
             /\ active_boss' = NewBoss(boss_waves(game.current_wave),
                                       SCREEN_W \div 2,
                                       SCREEN_H \div 2 - BOSS_SPAWN_DY) ]_vars

\* Wave 6 has just begun: no enemy is left and the boss is yet to come.
C39_Witness ==
    /\ now > CheckpointTime
    /\ game.current_wave = 6 /\ Playing
    /\ active_boss = NoBoss /\ enemies = <<>>


\* ---------------------------------------------------------------------
\* What consumes a player bullet
\* ---------------------------------------------------------------------

=============================================================================
